---- MODULE Spec2Model ----
(***************************************************************************)
(* A model of glox, a tree-walking interpreter for Lox written in Go.      *)
(* The parser (src/lang/parser.go) is a set of recursive operators over a  *)
(* parser record; the drivers and the evaluator are state machines.        *)
(***************************************************************************)
EXTENDS Integers, Sequences, FiniteSets, TLC

VARIABLES pc, parser, statements, before, exprIn, valueOut, errorHandler, stdout,
          stderr, osArgs, file, stdin, interpreter, exitCode, log,
          resolver, execution, todo, given, scanner

vars == <<pc, parser, statements, before, exprIn, valueOut, errorHandler, stdout,
          stderr, osArgs, file, stdin, interpreter, exitCode, log,
          resolver, execution, todo, given, scanner>>

\* The variables of the resolver and of the interpreter run after it, and the
\* source they are given.
resolveVars == <<resolver, execution, todo, given>>

\* The variables of the driver but the error handler and stdout.
driverVars == <<stderr, osArgs, file, stdin, interpreter, exitCode, log>>

\* The variables of the parser.
parserVars == <<parser, statements, before>>

\* The variables of the evaluator but the error handler and stdout.
evalVars == <<exprIn, valueOut>>

(***************************************************************************)
(* Tokens (src/unnamed/part_004).  A token is a record                     *)
(* [tokenType, lexeme, literal, line]; token types keep the Go names       *)
(* without the tokenType prefix.                                           *)
(***************************************************************************)
NilValue == [kind |-> "nil"]
BoolValue(b) == [kind |-> "bool", v |-> b]
NumberValue(n) == [kind |-> "number", v |-> n]
StringValue(s) == [kind |-> "string", v |-> s]

Token(tokenType, lexeme, literal, line) ==
    [tokenType |-> tokenType, lexeme |-> lexeme, literal |-> literal, line |-> line]


(***************************************************************************)
(* The scanner's token table (src/unnamed/part_010, scanToken and          *)
(* addIdentifierToken): the token a lexeme scans to.  Keywords carry their *)
(* text as literal, numbers their value, strings the text without quotes.  *)
(***************************************************************************)
Punctuation ==
    [w \in {"(", ")", "{", "}", ",", ".", "-", "+", ";", "*", "/",
            "!", "!=", "=", "==", "<", "<=", ">", ">="} |->
        CASE w = "(" -> "LeftParen"   [] w = ")" -> "RightParen"
          [] w = "{" -> "LeftBrace"   [] w = "}" -> "RightBrace"
          [] w = "," -> "Comma"       [] w = "." -> "Dot"
          [] w = "-" -> "Minus"       [] w = "+" -> "Plus"
          [] w = ";" -> "Semicolon"   [] w = "*" -> "Star"
          [] w = "/" -> "Slash"       [] w = "!" -> "Bang"
          [] w = "!=" -> "BangEqual"  [] w = "=" -> "Equal"
          [] w = "==" -> "EqualEqual" [] w = "<" -> "Less"
          [] w = "<=" -> "LessEqual"  [] w = ">" -> "Greater"
          [] w = ">=" -> "GreaterEqual"]

Keywords ==
    [w \in {"and", "class", "else", "false", "for", "fun", "if", "nil", "or",
            "print", "return", "super", "this", "true", "var", "while"} |->
        CASE w = "and" -> "And"       [] w = "class" -> "Class"
          [] w = "else" -> "Else"     [] w = "false" -> "False"
          [] w = "for" -> "For"       [] w = "fun" -> "Fun"
          [] w = "if" -> "If"         [] w = "nil" -> "Nil"
          [] w = "or" -> "Or"         [] w = "print" -> "Print"
          [] w = "return" -> "Return" [] w = "super" -> "Super"
          [] w = "this" -> "This"     [] w = "true" -> "True"
          [] w = "var" -> "Var"       [] w = "while" -> "While"]

NumberLexemes == [w \in {ToString(n) : n \in 0..9} |-> CHOOSE n \in 0..9 : ToString(n) = w]

StringLexemes == [w \in {"\"\"", "\"s\""} |-> IF w = "\"\"" THEN "" ELSE "s"]

scanToken(w, line) ==
    IF w \in DOMAIN Punctuation THEN Token(Punctuation[w], w, NilValue, line)
    ELSE IF w \in DOMAIN Keywords THEN Token(Keywords[w], w, StringValue(w), line)
    ELSE IF w \in DOMAIN NumberLexemes
         THEN Token("Number", w, NumberValue(NumberLexemes[w]), line)
    ELSE IF w \in DOMAIN StringLexemes
         THEN Token("String", w, StringValue(StringLexemes[w]), line)
    ELSE Token("Identifier", w, StringValue(w), line)

\* ScanTokens on a source given lexeme by lexeme, all on line 1: the tokens
\* in order, then the eof token.
ScanTokens(lexemes) ==
    [i \in 1..(Len(lexemes) + 1) |->
        IF i <= Len(lexemes) THEN scanToken(lexemes[i], 1)
        ELSE Token("EndOfFile", "", NilValue, 1)]

(***************************************************************************)
(* The error handler (src/lang/errorhandler.go, lines 16-56).  A static    *)
(* error sets HadError; a synchronizing one panics with the message, which *)
(* declaration() writes to stderr when it recovers; the others are written *)
(* at once.  The parser record p carries the handler's flag, stderr and    *)
(* the panic in flight.                                                    *)
(***************************************************************************)
NoPanic == [kind |-> "none"]

Panicking(p) == p.panicking

StaticErrorMsg(line, where, err) ==
    IF where # ""
    THEN "[line " \o ToString(line) \o "] Error " \o where \o ": " \o err \o "\n"
    ELSE "[line " \o ToString(line) \o "] Error: " \o err \o "\n"

reportStaticError(p, line, where, err, synchronize) ==
    LET errorMsg == StaticErrorMsg(line, where, err) IN
    IF synchronize
    THEN [p EXCEPT !.HadError = TRUE, !.panicking = TRUE,
                   !.panic = [kind |-> "staticError", msg |-> errorMsg]]
    ELSE [p EXCEPT !.HadError = TRUE, !.stderr = Append(@, errorMsg)]

(***************************************************************************)
(* The parser (src/lang/parser.go, lines 63-504).  Every operator maps a   *)
(* parser record to the record after the call, with the call's result in   *)
(* p.node; a record with a panic in flight passes through unchanged until  *)
(* declaration() recovers it.  Go slices are 0-based: tokens[current] is   *)
(* p.tokens[p.current + 1] here.                                           *)
(***************************************************************************)
NilNode == [type |-> "nil"]

NewParser(tokens, HadError, written) ==
    [tokens |-> tokens, current |-> 0, nextExprId |-> 0,
     HadError |-> HadError, stderr |-> written, panicking |-> FALSE, panic |-> NoPanic,
     node |-> NilNode, syncs |-> <<>>]

peek(p) == p.tokens[p.current + 1]

previous(p) == p.tokens[p.current]

isAtEnd(p) == peek(p).tokenType = "EndOfFile"

advance(p) == IF ~isAtEnd(p) THEN [p EXCEPT !.current = @ + 1] ELSE p

check(p, tokenType) == IF isAtEnd(p) THEN FALSE ELSE peek(p).tokenType = tokenType

\* match: whether the next token is of one of the types, and the parser after
\* the call (advanced when it is).
match(p, tokenTypes) ==
    IF Panicking(p) THEN [ok |-> FALSE, p |-> p]
    ELSE IF \E t \in tokenTypes : check(p, t) THEN [ok |-> TRUE, p |-> advance(p)]
    ELSE [ok |-> FALSE, p |-> p]

createError(p, token, msg, synchronize) ==
    reportStaticError(p, token.line, token.lexeme, msg, synchronize)

\* consume: the token consumed is previous() of the result.
consume(p, tokenType, msg) ==
    IF Panicking(p) THEN p
    ELSE IF check(p, tokenType) THEN advance(p)
    ELSE createError(p, peek(p), msg, TRUE)

\* A getNextExprId that hands out the counter without advancing it.
getNextExprIdStale(p) == p

getNextExprId(p) == IF Panicking(p) THEN p ELSE [p EXCEPT !.nextExprId = @ + 1]

Ret(p, node) == IF Panicking(p) THEN p ELSE [p EXCEPT !.node = node]

StatementStart == {"Class", "For", "Fun", "If", "Print", "Return", "Var", "While"}

RECURSIVE synchronizeLoop(_)
synchronizeLoop(p) ==
    IF isAtEnd(p) THEN p
    ELSE IF previous(p).tokenType = "Semicolon" THEN p
    ELSE IF peek(p).tokenType \in StatementStart THEN p
    ELSE synchronizeLoop(advance(p))

\* A synchronize that stops after the one token it always discards.
synchronizeOneToken(p) == advance(p)

\* A synchronize that discards nothing when the parser stands at the first
\* token.
synchronizeButFirst(p) == IF p.current = 0 THEN p ELSE synchronizeLoop(advance(p))

synchronize(p) == synchronizeLoop(advance(p))

RECURSIVE declaration(_), statement(_), expression(_), assignment(_),
          primary(_), blockStatement(_), function(_, _)

LiteralExpr(id, value) == [type |-> "LiteralExpr", id |-> id, value |-> value]

\* primary, after "(" and the expression e in it.
primaryGrouping(e) ==
    IF e.panicking THEN e
    ELSE LET g == getNextExprId(consume(e, "RightParen", "Expect ')' after expression."))
         IN Ret(g, [type |-> "GroupingExpr", id |-> g.nextExprId, expression |-> e.node])

\* primary, after a token that is an expression by itself.
primaryToken(g) ==
    CASE previous(g).tokenType = "False" -> Ret(g, LiteralExpr(g.nextExprId, BoolValue(FALSE)))
      [] previous(g).tokenType = "True" -> Ret(g, LiteralExpr(g.nextExprId, BoolValue(TRUE)))
      [] previous(g).tokenType = "Nil" -> Ret(g, LiteralExpr(g.nextExprId, NilValue))
      [] previous(g).tokenType \in {"Number", "String"} ->
            Ret(g, LiteralExpr(g.nextExprId, previous(g).literal))
      [] previous(g).tokenType = "This" ->
            Ret(g, [type |-> "ThisExpr", id |-> g.nextExprId, keyword |-> previous(g)])
      [] previous(g).tokenType = "Identifier" ->
            Ret(g, [type |-> "VariableExpr", id |-> g.nextExprId, name |-> previous(g)])

\* primary, after "super".
primarySuper(k) ==
    LET m == consume(consume(k, "Dot", "Expect '.' after 'super'."),
                     "Identifier", "Expect superclass method name.")
        g == getNextExprId(m)
    IN Ret(g, [type |-> "SuperExpr", id |-> g.nextExprId,
               keyword |-> previous(k), method |-> previous(m)])

primary(p) ==
    IF p.panicking THEN p
    ELSE IF match(p, {"False", "True", "Nil", "Number", "String", "This", "Identifier"}).ok
    THEN primaryToken(getNextExprId(advance(p)))
    ELSE IF match(p, {"Super"}).ok THEN primarySuper(advance(p))
    ELSE IF match(p, {"LeftParen"}).ok THEN primaryGrouping(expression(advance(p)))
    ELSE createError(p, peek(p), "Expect expression.", TRUE)

MaxArgs == 255

\* r.node appended to the list.
AppendNode(list, r) == IF r.panicking THEN r ELSE Ret(r, Append(list, r.node))

\* One turn of finishCall's loop `for p.match(tokenTypeComma)`; p.node holds
\* the arguments so far.  A turn after the loop has ended changes nothing.
finishCallArg(p) ==
    IF ~match(p, {"Comma"}).ok THEN p
    ELSE AppendNode(p.node,
            expression(IF Len(p.node) >= MaxArgs
                       THEN createError(advance(p), peek(advance(p)),
                                        "Can't have more than 255 arguments.", FALSE)
                       ELSE advance(p)))

\* At most n turns of the loop, a half after the other.
RECURSIVE finishCallTurns(_, _)
finishCallTurns(p, n) ==
    IF ~match(p, {"Comma"}).ok THEN p
    ELSE IF n <= 1 THEN finishCallArg(p)
    ELSE finishCallTurns(finishCallTurns(p, n \div 2), n - n \div 2)

\* The loop: every turn takes a token, so there are no more turns than
\* tokens left.
finishCallArgs(p) == finishCallTurns(p, Len(p.tokens) - p.current)

\* finishCall, after the arguments: a.node is the list of them.
finishCallParen(callee, a) ==
    IF a.panicking THEN a
    ELSE LET c == consume(a, "RightParen", "Expect ')' after arguments.")
             g == getNextExprId(c)
         IN Ret(g, [type |-> "CallExpr", id |-> g.nextExprId, callee |-> callee,
                    paren |-> previous(c), args |-> a.node])

finishCall(p, callee) ==
    finishCallParen(callee, IF ~check(p, "RightParen")
                            THEN finishCallArgs(AppendNode(<<>>, expression(p)))
                            ELSE Ret(p, <<>>))

\* The loop of call; p.node holds the expression so far.
RECURSIVE callLoop(_)
callLoop(p) ==
    IF p.panicking THEN p
    ELSE IF match(p, {"LeftParen"}).ok
    THEN callLoop(finishCall(advance(p), p.node))
    ELSE IF match(p, {"Dot"}).ok
    THEN LET n == consume(advance(p), "Identifier", "Expect property name after '.'.")
             g == getNextExprId(n)
         IN callLoop(Ret(g, [type |-> "GetExpr", id |-> g.nextExprId,
                             object |-> p.node, name |-> previous(n)]))
    ELSE p

call(p) == callLoop(primary(p))

\* unary, after the operator and its operand r.
unaryRight(operator, r) ==
    IF r.panicking THEN r
    ELSE LET g == getNextExprId(r) IN
         Ret(g, [type |-> "UnaryExpr", id |-> g.nextExprId,
                 operator |-> operator, right |-> r.node])

unary(p) ==
    IF match(p, {"Bang", "Minus"}).ok THEN unaryRight(peek(p), primary(advance(p)))
    ELSE call(p)

BinaryExpr(id, left, operator, right) ==
    [type |-> "BinaryExpr", id |-> id, left |-> left, operator |-> operator, right |-> right]

LogicalExpr(id, left, operator, right) ==
    [type |-> "LogicalExpr", id |-> id, left |-> left, operator |-> operator, right |-> right]

\* The operand r of a binary operator's loop: the first operand as it is
\* (left is nil), a later one as the right operand of a new node.
BinaryRight(left, operator, r) ==
    IF left = NilNode THEN r
    ELSE LET g == getNextExprId(r) IN
         Ret(g, BinaryExpr(g.nextExprId, left, operator, r.node))

LogicalRight(left, operator, r) ==
    IF left = NilNode THEN r
    ELSE LET g == getNextExprId(r) IN
         Ret(g, LogicalExpr(g.nextExprId, left, operator, r.node))

\* factor, term, comparison, equality, and, or: xLoop parses one operand
\* after the expression left and the operator; xNext, given the operand r,
\* makes the expression so far and is the loop's test.
RECURSIVE factorLoop(_, _, _)
factorNext(left, operator, r) ==
    IF r.panicking THEN r
    ELSE LET e == BinaryRight(left, operator, r) IN
         IF match(e, {"Slash", "Star", "Mod"}).ok
         THEN factorLoop(advance(e), e.node, peek(e)) ELSE e

factorLoop(p, left, operator) == factorNext(left, operator, unary(p))

factor(p) == factorLoop(p, NilNode, NilNode)

RECURSIVE termLoop(_, _, _)
termNext(left, operator, r) ==
    IF r.panicking THEN r
    ELSE LET e == BinaryRight(left, operator, r) IN
         IF match(e, {"Minus", "Plus"}).ok
         THEN termLoop(advance(e), e.node, peek(e)) ELSE e

termLoop(p, left, operator) == termNext(left, operator, factor(p))

term(p) == termLoop(p, NilNode, NilNode)

RECURSIVE comparisonLoop(_, _, _)
comparisonNext(left, operator, r) ==
    IF r.panicking THEN r
    ELSE LET e == BinaryRight(left, operator, r) IN
         IF match(e, {"Greater", "GreaterEqual", "Less", "LessEqual"}).ok
         THEN comparisonLoop(advance(e), e.node, peek(e)) ELSE e

comparisonLoop(p, left, operator) == comparisonNext(left, operator, term(p))

comparison(p) == comparisonLoop(p, NilNode, NilNode)

RECURSIVE equalityLoop(_, _, _)
equalityNext(left, operator, r) ==
    IF r.panicking THEN r
    ELSE LET e == BinaryRight(left, operator, r) IN
         IF match(e, {"BangEqual", "EqualEqual"}).ok
         THEN equalityLoop(advance(e), e.node, peek(e)) ELSE e

equalityLoop(p, left, operator) == equalityNext(left, operator, comparison(p))

equality(p) == equalityLoop(p, NilNode, NilNode)

RECURSIVE andLoop(_, _, _)
andNext(left, operator, r) ==
    IF r.panicking THEN r
    ELSE LET e == LogicalRight(left, operator, r) IN
         IF match(e, {"And"}).ok
         THEN andLoop(advance(e), e.node, peek(e)) ELSE e

andLoop(p, left, operator) == andNext(left, operator, equality(p))

and(p) == andLoop(p, NilNode, NilNode)

RECURSIVE orLoop(_, _, _)
orNext(left, operator, r) ==
    IF r.panicking THEN r
    ELSE LET e == LogicalRight(left, operator, r) IN
         IF match(e, {"Or"}).ok
         THEN orLoop(advance(e), e.node, peek(e)) ELSE e

orLoop(p, left, operator) == orNext(left, operator, and(p))

or(p) == orLoop(p, NilNode, NilNode)

\* An assignment whose invalid-target error synchronizes.
assignmentValueSynchronizing(expr, equals, v) ==
    IF v.panicking THEN v
    ELSE IF expr.type = "VariableExpr"
    THEN LET g == getNextExprId(v) IN
         Ret(g, [type |-> "AssignExpr", id |-> g.nextExprId,
                 name |-> expr.name, value |-> v.node])
    ELSE IF expr.type = "GetExpr"
    THEN LET g == getNextExprId(v) IN
         Ret(g, [type |-> "SetExpr", id |-> g.nextExprId, object |-> expr.object,
                 name |-> expr.name, value |-> v.node])
    ELSE Ret(createError(v, equals, "Invalid assignment target.", TRUE), expr)

\* assignment, after "=" and the value v: expr is the left-hand side.
assignmentValue(expr, equals, v) ==
    IF v.panicking THEN v
    ELSE IF expr.type = "VariableExpr"
    THEN LET g == getNextExprId(v) IN
         Ret(g, [type |-> "AssignExpr", id |-> g.nextExprId,
                 name |-> expr.name, value |-> v.node])
    ELSE IF expr.type = "GetExpr"
    THEN LET g == getNextExprId(v) IN
         Ret(g, [type |-> "SetExpr", id |-> g.nextExprId, object |-> expr.object,
                 name |-> expr.name, value |-> v.node])
    ELSE Ret(createError(v, equals, "Invalid assignment target.", FALSE), expr)

\* assignment, after the expression e parsed by or().
assignmentTarget(e) ==
    IF e.panicking THEN e
    ELSE IF match(e, {"Equal"}).ok
    THEN assignmentValue(e.node, peek(e), assignment(advance(e)))
    ELSE e

assignment(p) == assignmentTarget(or(p))

expression(p) == assignment(p)

MaxParams == 255

\* A turn of the parameter loop that lets one parameter more through before
\* it reports.
functionParamLateCap(p) ==
    IF ~match(p, {"Comma"}).ok THEN p
    ELSE LET q == IF Len(p.node) > MaxParams
                  THEN createError(advance(p), peek(advance(p)),
                                   "Can't have more than 255 parameters.", FALSE)
                  ELSE advance(p)
             c == consume(q, "Identifier", "Expect parameter name.")
         IN Ret(c, Append(p.node, previous(c)))

\* One turn of function's loop `for p.match(tokenTypeComma)`; p.node holds
\* the parameters so far.  A turn after the loop has ended changes nothing.
functionParam(p) ==
    IF ~match(p, {"Comma"}).ok THEN p
    ELSE LET q == IF Len(p.node) >= MaxParams
                  THEN createError(advance(p), peek(advance(p)),
                                   "Can't have more than 255 parameters.", FALSE)
                  ELSE advance(p)
             c == consume(q, "Identifier", "Expect parameter name.")
         IN Ret(c, Append(p.node, previous(c)))

\* At most n turns of the loop, a half after the other.
RECURSIVE functionParamsTurns(_, _)
functionParamsTurns(p, n) ==
    IF ~match(p, {"Comma"}).ok THEN p
    ELSE IF n <= 1 THEN functionParam(p)
    ELSE functionParamsTurns(functionParamsTurns(p, n \div 2), n - n \div 2)

\* The loop: every turn takes a token, so there are no more turns than
\* tokens left.
functionParams(p) == functionParamsTurns(p, Len(p.tokens) - p.current)

\* function, after the body.
functionBody(name, params, body) ==
    IF body.panicking THEN body
    ELSE Ret(body, [type |-> "FunctionStmt", name |-> name, params |-> params,
                    body |-> body.node])

\* function, after the name and "(": a.node will be the parameters.
functionParen(kind, name, l) ==
    LET a == IF ~check(l, "RightParen")
             THEN LET c == consume(l, "Identifier", "Expect parameter name.")
                  IN functionParams(Ret(c, <<previous(c)>>))
             ELSE Ret(l, <<>>)
    IN functionBody(name, a.node,
           blockStatement(consume(consume(a, "RightParen", "Expect ')' after parameters."),
                                  "LeftBrace", "Expect '{' before " \o kind \o " body.")))

function(p, kind) ==
    LET n == consume(p, "Identifier", "Expect " \o kind \o " name.") IN
    functionParen(kind, previous(n),
                  consume(n, "LeftParen", "Expect '(' after " \o kind \o " name."))

\* The zero value of VariableExpr: a class without superclass carries it.
NoSuperclass ==
    [type |-> "VariableExpr", id |-> 0, name |-> Token("LeftParen", "", NilValue, 0)]

\* The method loop of classDeclaration; p.node holds the methods so far.
RECURSIVE classMethods(_)
classMethods(p) ==
    IF p.panicking THEN p
    ELSE IF ~check(p, "RightBrace") /\ ~isAtEnd(p)
    THEN classMethods(AppendNode(p.node, function(p, "method")))
    ELSE p

\* classDeclaration, after the methods.
classBody(name, superclass, ms) ==
    IF ms.panicking THEN ms
    ELSE Ret(consume(ms, "RightBrace", "Expect '}' after class body."),
             [type |-> "ClassStmt", name |-> name, superclass |-> superclass,
              methods |-> ms.node])

\* classDeclaration, after the superclass clause: s.node is the superclass.
classSuperclass(name, s) ==
    classBody(name, s.node,
              classMethods(Ret(consume(s, "LeftBrace", "Expect '{' before class body."), <<>>)))

classDeclaration(p) ==
    LET n == consume(p, "Identifier", "Expect class name.")
        m == match(n, {"Less"})
        g == getNextExprId(consume(m.p, "Identifier", "Expect superclass name."))
    IN classSuperclass(previous(n),
           IF m.ok
           THEN Ret(g, [type |-> "VariableExpr", id |-> g.nextExprId, name |-> previous(g)])
           ELSE Ret(n, NoSuperclass))

\* varDeclaration, after the initializer clause: i.node is the initializer.
varInitializer(name, i) ==
    IF i.panicking THEN i
    ELSE Ret(consume(i, "Semicolon", "Expect ';' after variable declaration."),
             [type |-> "VarStmt", name |-> name, initializer |-> i.node])

varDeclaration(p) ==
    LET n == consume(p, "Identifier", "Expect variable name.") IN
    varInitializer(previous(n),
                   IF match(n, {"Equal"}).ok THEN expression(advance(n)) ELSE Ret(n, NilNode))

ExprStmt(expr) == [type |-> "ExprStmt", expr |-> expr]

BlockStmt(stmts) == [type |-> "BlockStmt", statements |-> stmts]

WhileStmt(condition, body) == [type |-> "WhileStmt", condition |-> condition, body |-> body]

\* expressionStatment, after the expression e.
expressionSemicolon(e) ==
    IF e.panicking THEN e
    ELSE Ret(consume(e, "Semicolon", "Expect ';' after expression."), ExprStmt(e.node))

expressionStatment(p) == expressionSemicolon(expression(p))

\* A forStatement that puts the increment before the body.
forDesugarIncrementFirst(initializer, condition, increment, b) ==
    IF b.panicking THEN b
    ELSE LET body1 == IF increment # NilNode
                      THEN BlockStmt(<<ExprStmt(increment), b.node>>)
                      ELSE b.node
             g == IF condition = NilNode THEN getNextExprId(b) ELSE b
             condition1 == IF condition = NilNode
                           THEN LiteralExpr(g.nextExprId, BoolValue(TRUE))
                           ELSE condition
             body2 == WhileStmt(condition1, body1)
             body3 == IF initializer # NilNode THEN BlockStmt(<<initializer, body2>>)
                      ELSE body2
         IN Ret(g, body3)

\* forStatement, after the body b: the desugaring (lines 210-223).
forDesugar(initializer, condition, increment, b) ==
    IF b.panicking THEN b
    ELSE LET body1 == IF increment # NilNode
                      THEN BlockStmt(<<b.node, ExprStmt(increment)>>)
                      ELSE b.node
             g == IF condition = NilNode THEN getNextExprId(b) ELSE b
             condition1 == IF condition = NilNode
                           THEN LiteralExpr(g.nextExprId, BoolValue(TRUE))
                           ELSE condition
             body2 == WhileStmt(condition1, body1)
             body3 == IF initializer # NilNode THEN BlockStmt(<<initializer, body2>>)
                      ELSE body2
         IN Ret(g, body3)

\* forStatement, after the increment clause n.
forBody(initializer, condition, n) ==
    IF n.panicking THEN n
    ELSE forDesugar(initializer, condition, n.node,
                    statement(consume(n, "RightParen", "Expect ')' after for clauses.")))

\* forStatement, after the ";" of the condition clause.
forIncrement(initializer, condition, s) ==
    forBody(initializer, condition,
            IF ~check(s, "Semicolon") THEN expression(s) ELSE Ret(s, NilNode))

\* forStatement, after the condition clause c.
forCondition(initializer, c) ==
    IF c.panicking THEN c
    ELSE forIncrement(initializer, c.node,
                      consume(c, "Semicolon", "Expect ';' after loop condition."))

\* forStatement, after the initializer clause i.
forInitializer(i) ==
    IF i.panicking THEN i
    ELSE forCondition(i.node,
                      IF ~check(i, "Semicolon") THEN expression(i) ELSE Ret(i, NilNode))

forStatement(p) ==
    LET l == consume(p, "LeftParen", "Expect '(' after 'for'.") IN
    forInitializer(IF match(l, {"Semicolon"}).ok THEN Ret(advance(l), NilNode)
                   ELSE IF match(l, {"Var"}).ok THEN varDeclaration(advance(l))
                   ELSE expressionStatment(l))

\* ifStatement, after the else clause e.
ifElse(condition, thenBranch, e) ==
    IF e.panicking THEN e
    ELSE Ret(e, [type |-> "IfStmt", condition |-> condition, thenBranch |-> thenBranch,
                 elseBranch |-> e.node])

\* ifStatement, after the then branch t.
ifThen(condition, t) ==
    IF t.panicking THEN t
    ELSE ifElse(condition, t.node,
                IF match(t, {"Else"}).ok THEN statement(advance(t)) ELSE Ret(t, NilNode))

\* ifStatement, after the condition c.
ifCondition(c) ==
    IF c.panicking THEN c
    ELSE ifThen(c.node, statement(consume(c, "RightParen", "Expect ')' after if condition")))

ifStatement(p) == ifCondition(expression(consume(p, "LeftParen", "Expect '(' after 'if'.")))

\* printStatement, after the value v.
printValue(v) ==
    IF v.panicking THEN v
    ELSE Ret(consume(v, "Semicolon", "Expect ';' after value."),
             [type |-> "PrintStmt", expr |-> v.node])

printStatement(p) == printValue(expression(p))

\* returnStatement, after the value clause v.
returnValue(keyword, v) ==
    IF v.panicking THEN v
    ELSE Ret(consume(v, "Semicolon", "Expect ';' after return value."),
             [type |-> "ReturnStmt", keyword |-> keyword, value |-> v.node])

returnStatement(p) ==
    returnValue(previous(p), IF ~check(p, "Semicolon") THEN expression(p) ELSE Ret(p, NilNode))

\* whileStatment, after the body b.
whileBody(condition, b) ==
    IF b.panicking THEN b ELSE Ret(b, WhileStmt(condition, b.node))

\* whileStatment, after the condition c.
whileCondition(c) ==
    IF c.panicking THEN c
    ELSE whileBody(c.node,
                   statement(consume(c, "RightParen", "Expect ')' after while condition")))

whileStatment(p) ==
    whileCondition(expression(consume(p, "LeftParen", "Expect '(' after 'while'.")))

\* The loop of blockStatement; p.node holds the statements so far.
RECURSIVE blockLoop(_)
blockLoop(p) ==
    IF p.panicking THEN p
    ELSE IF ~check(p, "RightBrace") /\ ~isAtEnd(p)
    THEN blockLoop(AppendNode(p.node, declaration(p)))
    ELSE p

\* blockStatement, after the loop: b.node is the list of statements.
blockEnd(b) ==
    IF b.panicking THEN b
    ELSE Ret(consume(b, "RightBrace", "Expect '}' after block."), b.node)

blockStatement(p) == blockEnd(blockLoop(Ret(p, <<>>)))

\* statement's BlockStmt of the statements b.node.
statementBlock(b) == IF b.panicking THEN b ELSE Ret(b, BlockStmt(b.node))

statement(p) ==
    IF p.panicking THEN p
    ELSE CASE match(p, {"For"}).ok -> forStatement(advance(p))
           [] match(p, {"If"}).ok -> ifStatement(advance(p))
           [] match(p, {"Print"}).ok -> printStatement(advance(p))
           [] match(p, {"Return"}).ok -> returnStatement(advance(p))
           [] match(p, {"While"}).ok -> whileStatment(advance(p))
           [] match(p, {"LeftBrace"}).ok -> statementBlock(blockStatement(advance(p)))
           [] OTHER -> expressionStatment(p)

\* declaration's deferred function (lines 83-103): it recovers a staticError
\* panic, writes its message, synchronizes and makes the statement nil.
\* p.syncs records the token index each synchronize() returned at.
declarationRecover(r) ==
    IF ~r.panicking THEN r
    ELSE IF r.panic.kind = "staticError"
    THEN LET s == synchronize([r EXCEPT !.panicking = FALSE, !.panic = NoPanic,
                                        !.stderr = Append(@, r.panic.msg)])
         IN [s EXCEPT !.node = NilNode, !.syncs = Append(@, s.current)]
    ELSE r

declaration(p) ==
    declarationRecover(
        CASE match(p, {"Class"}).ok -> classDeclaration(advance(p))
          [] match(p, {"Fun"}).ok -> function(advance(p), "function")
          [] match(p, {"Var"}).ok -> varDeclaration(advance(p))
          [] OTHER -> statement(p))

\* Parse: declaration() until the eof token; the parser after it and the
\* statements in order.
RECURSIVE ParseLoop(_, _)
ParseAppend(stmts, d) == ParseLoop(d, Append(stmts, d.node))

ParseLoop(p, stmts) ==
    IF isAtEnd(p) THEN [p |-> p, statements |-> stmts]
    ELSE ParseAppend(stmts, declaration(p))

Parse(p) == ParseLoop(p, <<>>)

(***************************************************************************)
(* The sources the parser is run on, lexeme by lexeme: one declaration     *)
(* from the families below, with at most MaxAround common declarations     *)
(* (well-formed and erroneous) before and after it.                        *)
(***************************************************************************)
MaxNest == 2

MaxAround == 1

UnaryOps == {"!", "-"}

UnaryOperands == {<<"true">>, <<"1">>, <<"f", "(", "1", ")">>, <<"a", ".", "b">>}

UnaryPrefixes == UNION {[1..k -> UnaryOps] : k \in 1..MaxNest}

UnaryFragments == {ops \o x \o <<";">> : ops \in UnaryPrefixes, x \in UnaryOperands}

ForInits == {<<";">>, <<"var", "i", "=", "0", ";">>, <<"i", "=", "0", ";">>}

ForConds == {<<>>, <<"i", "<", "2">>}

ForIncrs == {<<>>, <<"i", "=", "i", "+", "1">>}

ForBodies == {<<"print", "i", ";">>, <<"{", "}">>}

ForFragment(init, cond, incr, body) ==
    <<"for", "(">> \o init \o cond \o <<";">> \o incr \o <<")">> \o body

ForFragments ==
    {ForFragment(f[1], f[2], f[3], f[4]) :
        f \in ForInits \X ForConds \X ForIncrs \X ForBodies}

AssignLhs == {<<"a">>, <<"a", ".", "b">>, <<"f", "(", ")", ".", "b">>, <<"1">>,
              <<"(", "a", ")">>, <<"a", "+", "b">>, <<"f", "(", ")">>, <<"-", "a">>}

AssignRhs == {<<"1">>, <<"b">>}

AssignFragment(lhs, rhs) == lhs \o <<"=">> \o rhs \o <<";">>

AssignFragments == {AssignFragment(f[1], f[2]) : f \in AssignLhs \X AssignRhs}

\* Erroneous declarations whose synchronize() stops at their own last token.
ErrorFragments ==
    {<<"var", ";">>, <<"print", ";">>, <<"print", "1", "1", ";">>,
     <<"var", "a", "=", ";">>, <<"(", "1", ";">>}

\* An erroneous declaration nested in a well-formed block or function body.
NestedErrorFragments ==
    {<<"{", "var", ";", "print", "1", ";", "}">>,
     <<"fun", "f", "(", "a", ")", "{", "print", ";", "var", "a", ";", "}">>,
     <<"{", "{", "print", ";", "}", "print", "1", ";", "}">>}

\* Erroneous declarations whose synchronize() runs into what follows.
OpenErrorFragments ==
    {<<"print", "1">>, <<"{", "print", "1", ";">>, <<")">>, <<"var", "a", "=", "1">>,
     <<"class", "A", "{", "f", "(", ")", "{", "var", ";", "}">>}

GoodFragments ==
    {<<"print", "1", ";">>, <<"var", "a", "=", "1", ";">>, <<"var", "a", ";">>,
     <<"if", "(", "a", "or", "b", "and", "c", ")", "print", "1", ";", "else", "print", "2", ";">>,
     <<"while", "(", "a", "!=", "nil", ")", "a", "=", "a", "*", "2", "/", "1", ";">>,
     <<"fun", "f", "(", "a", ",", "b", ")", "{", "return", "a", "-", "b", ";", "}">>,
     <<"fun", "f", "(", ")", "{", "return", ";", "}">>,
     <<"class", "A", "<", "B", "{", "init", "(", "a", ")", "{", "this", ".", "a", "=", "a", ";", "}",
       "m", "(", ")", "{", "return", "super", ".", "m", "(", ")", ";", "}", "}">>,
     <<"class", "A", "{", "}">>,
     <<"{", "for", "(", ";", ";", "i", "=", "i", "+", "1", ")", "print", "i", ";",
       "class", "A", "<", "B", "{", "}", "}">>,
     <<"print", "f", "(", "1", ",", "\"s\"", ")", "==", "false", ";">>}

\* How many parameters or arguments beyond the cap the sources go.
MaxOver == 1

\* n times the lexeme x, with commas between.
CommaList(x, n) == [i \in 1..(2 * n - 1) |-> IF i % 2 = 1 THEN x ELSE ","]

CapKinds == {"function", "method", "call"}

CapOf(kind) == IF kind = "call" THEN MaxArgs ELSE MaxParams

CapCounts(kind) == CapOf(kind)..(CapOf(kind) + MaxOver)

\* A function or a method of n parameters, a call of n arguments.
CapFragment(kind, n) ==
    CASE kind = "function" ->
            <<"fun", "f", "(">> \o CommaList("a", n) \o <<")", "{", "}">>
      [] kind = "method" ->
            <<"class", "A", "{", "m", "(">> \o CommaList("a", n) \o <<")", "{", "}", "}">>
      [] kind = "call" -> <<"print", "f", "(">> \o CommaList("1", n) \o <<")", ";">>

CapFragments == UNION {{CapFragment(kind, n) : n \in CapCounts(kind)} : kind \in CapKinds}

Fragments ==
    UnaryFragments \cup ForFragments \cup AssignFragments \cup ErrorFragments
    \cup NestedErrorFragments \cup OpenErrorFragments \cup GoodFragments

CommonFragments ==
    {<<"print", "1", ";">>, <<"var", ";">>, <<"print", "1">>,
     <<"{", "print", ";", "}">>, <<"1", "=", "2", ";">>}

RECURSIVE Concat(_)
Concat(seqs) == IF seqs = <<>> THEN <<>> ELSE Head(seqs) \o Concat(Tail(seqs))

CommonSeqs == UNION {[1..k -> CommonFragments] : k \in 0..MaxAround}

\* The declarations at the cap come first in their source: a synchronize()
\* of a declaration before them would discard their first token.
CapSources == {main \o Concat(after) : main \in CapFragments, after \in CommonSeqs}

Sources ==
    {Concat(a[1]) \o main \o Concat(a[2]) :
        a \in {b \in CommonSeqs \X CommonSeqs : Len(b[1]) + Len(b[2]) <= MaxAround},
        main \in Fragments}
    \cup CapSources

(***************************************************************************)
(* The parser run one declaration() at a time, as Parse does (lines 74-80),*)
(* on a source from Sources.  before is the parser as it was when the      *)
(* latest declaration() was called.                                        *)
(***************************************************************************)
\* NewErrorHandler (src/lang/errorhandler.go).
NewErrorHandler == [HadError |-> FALSE, HadRuntimeError |-> FALSE]

NoExit == -1

\* The driver's variables where no process runs.
DriverIdle ==
    /\ stderr = <<>> /\ osArgs = <<>> /\ stdin = <<>> /\ log = <<>>
    /\ file = [readable |-> FALSE, source |-> <<>>]
    /\ interpreter = [globals |-> <<>>, locals |-> <<>>]
    /\ exitCode = NoExit

\* The resolver's and the scanner's variables where neither runs.
PassesIdle ==
    resolver = <<>> /\ execution = <<>> /\ todo = <<>> /\ given = <<>> /\ scanner = <<>>

ParseInit ==
    /\ pc = "parse"
    /\ PassesIdle
    /\ exprIn = NilNode /\ valueOut = NilValue
    /\ errorHandler = NewErrorHandler /\ stdout = <<>>
    /\ DriverIdle
    /\ \E src \in Sources : parser = NewParser(ScanTokens(src), FALSE, <<>>)
    /\ statements = <<>>
    /\ before = parser

ParseDeclaration ==
    /\ pc = "parse"
    /\ ~isAtEnd(parser)
    /\ parser' = declaration(parser)
    /\ statements' = Append(statements, parser'.node)
    /\ before' = parser
    /\ UNCHANGED <<pc, evalVars, errorHandler, stdout, driverVars, resolveVars, scanner>>

ParseReturn ==
    /\ pc = "parse"
    /\ isAtEnd(parser)
    /\ pc' = "parsed"
    /\ UNCHANGED <<parserVars, evalVars, errorHandler, stdout, driverVars, resolveVars,
                   scanner>>

ParseNext == ParseDeclaration \/ ParseReturn

SpecParse == ParseInit /\ [][ParseNext]_vars

(***************************************************************************)
(* Properties of the parser, checked under SpecParse on the state after    *)
(* each declaration(): before is the parser it was called on, parser the   *)
(* one it left, Last the statement it returned.                            *)
(***************************************************************************)
Last == statements[Len(statements)]

\* The latest declaration() was called with the fragment's tokens next.
DeclaredAt(fragment) ==
    /\ Len(statements) > 0
    /\ before.current + Len(fragment) < Len(before.tokens)
    /\ \A i \in 1..Len(fragment) : before.tokens[before.current + i].lexeme = fragment[i]

\* A parser of its own on the lexemes, the next expression id being id + 1.
Piece(lexemes, id) ==
    [NewParser(ScanTokens(lexemes), FALSE, <<>>) EXCEPT !.nextExprId = id]

\* No diagnostic was written and no error flagged by the latest declaration().
Silent ==
    /\ parser.stderr = before.stderr
    /\ parser.HadError = before.HadError
    /\ parser.syncs = before.syncs

\* The operand o under the prefix operators ops, outermost first.
RECURSIVE UnaryNest(_, _)
UnaryNest(ops, o) ==
    IF ops = <<>> THEN o
    ELSE LET r == UnaryNest(Tail(ops), o) IN
         [r EXCEPT !.nextExprId = @ + 1,
                   !.node = [type |-> "UnaryExpr", id |-> r.nextExprId + 1,
                             operator |-> scanToken(Head(ops), 1), right |-> r.node]]

\* C6: prefix operators nest and take a whole call or property access as
\* operand: a statement of one to MaxNest operators "!" or "-" before a
\* literal, a call or a property access parses, without any diagnostic, to
\* the operators nested around the operand as call() parses it.
UnaryNestsOverCall ==
    \A ops \in UnaryPrefixes : \A x \in UnaryOperands :
        DeclaredAt(ops \o x \o <<";">>) =>
            /\ Silent
            /\ Last = ExprStmt(UnaryNest(ops, call(Piece(x, before.nextExprId))).node)

\* C6: "!!true;" was parsed, and what came of it is the diagnostic
\* "Expect expression." at the second "!" and no statement.
UnaryOperandIsPrimary ==
    /\ DeclaredAt(<<"!", "!", "true", ";">>)
    /\ Last = NilNode
    /\ parser.stderr = Append(before.stderr, StaticErrorMsg(1, "!", "Expect expression."))

\* The loop a for statement stands for, made from its clauses parsed one by
\* one: the clauses left out contribute nothing, but for the condition,
\* which is then the literal true.
ForLoop(init, cond, incr, body, id) ==
    LET i == IF init = <<";">> THEN Piece(<<>>, id) ELSE declaration(Piece(init, id))
        c == IF cond = <<>> THEN i ELSE expression(Piece(cond, i.nextExprId))
        n == IF incr = <<>> THEN c ELSE expression(Piece(incr, c.nextExprId))
        b == statement(Piece(body, n.nextExprId))
        condition == IF cond = <<>> THEN LiteralExpr(b.nextExprId + 1, BoolValue(TRUE))
                     ELSE c.node
        loop == WhileStmt(condition,
                          IF incr = <<>> THEN b.node
                          ELSE BlockStmt(<<b.node, ExprStmt(n.node)>>))
    IN IF init = <<";">> THEN loop ELSE BlockStmt(<<i.node, loop>>)

\* C7: a for statement with any of its clauses left out parses without any
\* diagnostic to the loop of the clauses it has.
ForClausesOmitted ==
    \A f \in ForInits \X ForConds \X ForIncrs \X ForBodies :
        DeclaredAt(ForFragment(f[1], f[2], f[3], f[4])) =>
            /\ Silent
            /\ Last = ForLoop(f[1], f[2], f[3], f[4], before.nextExprId)

\* C7: "for (;;) {}" was parsed, and what came of it is the diagnostic
\* "Expect expression." at ")" and no statement.
ForWithoutIncrementFails ==
    /\ DeclaredAt(<<"for", "(", ";", ";", ")", "{", "}">>)
    /\ Last = NilNode
    /\ parser.stderr = Append(before.stderr, StaticErrorMsg(1, ")", "Expect expression."))

\* C8: a for statement with its three clauses parses, without any
\* diagnostic and up to the end of its body, to
\* Block[init, While(cond, Block[body, ExprStmt(incr)])].
ForDesugaring ==
    \A f \in (ForInits \ {<<";">>}) \X (ForConds \ {<<>>}) \X (ForIncrs \ {<<>>}) \X ForBodies :
        DeclaredAt(ForFragment(f[1], f[2], f[3], f[4])) =>
            LET i == declaration(Piece(f[1], before.nextExprId))
                c == expression(Piece(f[2], i.nextExprId))
                n == expression(Piece(f[3], c.nextExprId))
                b == statement(Piece(f[4], n.nextExprId))
            IN /\ Silent
               /\ Last = BlockStmt(<<i.node,
                                     WhileStmt(c.node,
                                               BlockStmt(<<b.node, ExprStmt(n.node)>>))>>)
               /\ parser.nextExprId = b.nextExprId
               /\ parser.current =
                      before.current + Len(ForFragment(f[1], f[2], f[3], f[4]))

\* C8: a for statement with its three clauses was parsed to a statement.
ForDesugaringWitness ==
    /\ DeclaredAt(ForFragment(<<"var", "i", "=", "0", ";">>, <<"i", "<", "2">>,
                              <<"i", "=", "i", "+", "1">>, <<"print", "i", ";">>))
    /\ Last.type = "BlockStmt"
    /\ Last.statements[2].body.statements[2].expr.type = "AssignExpr"

\* The lexemes of the tokens after the parser's position.
Remaining(p) == [i \in 1..(Len(p.tokens) - 1 - p.current) |-> p.tokens[p.current + i].lexeme]

\* What Parse makes of the rest of the source is what it makes of that rest
\* as a source of its own.
ParsesRestNormally(p) ==
    LET rest == Parse(p)
        alone == Parse([Piece(Remaining(p), p.nextExprId) EXCEPT
                            !.HadError = p.HadError, !.stderr = p.stderr])
    IN /\ rest.statements = alone.statements
       /\ rest.p.stderr = alone.p.stderr
       /\ rest.p.HadError = alone.p.HadError
       /\ rest.p.nextExprId = alone.p.nextExprId

\* C9: a statement "lhs = rhs;" parses to an Assign when lhs is a Variable
\* and to a Set when lhs is a Get; for any other lhs the diagnostic
\* "Invalid assignment target." is written and the error flag set, without
\* unwinding or discarding a token: the statement is that of lhs, the
\* parser stands after the ";", and the rest of the source parses as usual.
AssignmentTargets ==
    \A f \in AssignLhs \X AssignRhs :
        DeclaredAt(AssignFragment(f[1], f[2])) =>
            LET l == or(Piece(f[1], before.nextExprId))
                r == assignment(Piece(f[2], l.nextExprId))
            IN /\ parser.current = before.current + Len(AssignFragment(f[1], f[2]))
               /\ parser.syncs = before.syncs
               /\ ParsesRestNormally(parser)
               /\ CASE l.node.type = "VariableExpr" ->
                        /\ Last = ExprStmt([type |-> "AssignExpr", id |-> r.nextExprId + 1,
                                            name |-> l.node.name, value |-> r.node])
                        /\ Silent
                    [] l.node.type = "GetExpr" ->
                        /\ Last = ExprStmt([type |-> "SetExpr", id |-> r.nextExprId + 1,
                                            object |-> l.node.object, name |-> l.node.name,
                                            value |-> r.node])
                        /\ Silent
                    [] OTHER ->
                        /\ Last = ExprStmt(l.node)
                        /\ parser.nextExprId = r.nextExprId
                        /\ parser.HadError
                        /\ parser.stderr =
                               Append(before.stderr,
                                      StaticErrorMsg(1, "=", "Invalid assignment target."))

\* C9: "f() = 1;" was parsed with a declaration still to come after it: the
\* diagnostic was written and the statement is the call.
AssignmentTargetsWitness ==
    /\ DeclaredAt(AssignFragment(<<"f", "(", ")">>, <<"1">>))
    /\ ~isAtEnd(parser)
    /\ Last.type = "ExprStmt"
    /\ Last.expr.type = "CallExpr"
    /\ parser.stderr # before.stderr

\* A nil statement, left by a declaration() that recovered, is in the node.
RECURSIVE HasNil(_)
HasNil(node) ==
    CASE node.type = "nil" -> TRUE
      [] node.type = "BlockStmt" ->
            \E i \in 1..Len(node.statements) : HasNil(node.statements[i])
      [] node.type = "FunctionStmt" -> \E i \in 1..Len(node.body) : HasNil(node.body[i])
      [] OTHER -> FALSE

\* synchronize() returned at token index s: the token before is ";", or the
\* next one starts a statement or is the eof token.
SynchronizedAt(s) ==
    \/ s > 0 /\ parser.tokens[s].tokenType = "Semicolon"
    \/ parser.tokens[s + 1].tokenType \in StatementStart \cup {"EndOfFile"}

\* C10: every synchronize() returns at a statement boundary; the
\* declaration() that recovers writes one diagnostic and returns nil, and it
\* is the innermost one: an error inside a block or a function body leaves
\* the nil statement in that body and the enclosing declaration whole; and
\* an erroneous declaration is reported wherever it stands in the source,
\* whatever was reported before it.
ParserRecovery ==
    /\ \A k \in 1..Len(parser.syncs) : SynchronizedAt(parser.syncs[k])
    /\ Len(parser.syncs) <= Len(parser.stderr)
    /\ Len(statements) > 0 /\ Last = NilNode =>
            /\ Len(parser.syncs) > Len(before.syncs)
            /\ parser.syncs[Len(parser.syncs)] = parser.current
            /\ Len(parser.stderr) > Len(before.stderr)
            /\ parser.HadError
    /\ \A f \in NestedErrorFragments :
            DeclaredAt(f) =>
                /\ Last # NilNode
                /\ HasNil(Last)
                /\ Len(parser.syncs) = Len(before.syncs) + 1
                /\ Len(parser.stderr) = Len(before.stderr) + 1
                /\ parser.current = before.current + Len(f)
    /\ \A f \in ErrorFragments :
            DeclaredAt(f) =>
                /\ Last = NilNode
                /\ Len(parser.stderr) = Len(before.stderr) + 1
                /\ Len(parser.syncs) = Len(before.syncs) + 1
                /\ parser.current = before.current + Len(f)

\* C10: a second erroneous declaration was reported after a first one was
\* recovered from, tokens having been discarded up to a statement keyword.
ParserRecoveryWitness ==
    /\ \E f \in ErrorFragments : DeclaredAt(f)
    /\ Len(before.syncs) = 1
    /\ before.tokens[before.syncs[1]].tokenType # "Semicolon"
    /\ Len(parser.syncs) = 2
    /\ Len(parser.stderr) = 2

(***************************************************************************)
(* The evaluator (src/lang/interpreter.go).  An interpreter i is the       *)
(* record [HadRuntimeError, stdout, value]: the flag of its error handler, *)
(* what was printed, and the value of the expression evaluated last.       *)
(* Numbers are integers; a quotient that is none is kept as the record of  *)
(* its dividend and divisor.                                               *)
(***************************************************************************)
isTruthy(v) ==
    IF v = NilValue THEN FALSE
    ELSE IF v.kind = "bool" THEN v.v
    ELSE FALSE

stringify(v) ==
    IF v = NilValue THEN "nil"
    ELSE IF v.kind = "bool" THEN (IF v.v THEN "true" ELSE "false")
    ELSE IF v.kind = "number" THEN ToString(v.v)
    ELSE v.v

\* ErrorHandler.reportRuntime (src/lang/errorhandler.go, lines 92-95).
reportRuntime(i, line, err) ==
    [i EXCEPT !.HadRuntimeError = TRUE,
              !.stdout = Append(@, "[line " \o ToString(line) \o "] " \o err \o "\n")]

Returns(i, v) == [i EXCEPT !.value = v]

\* The float64 of a value and of what is no float64: its zero value.
Float(v) == IF v.kind = "number" THEN v.v ELSE 0

areValuesValidFloats(left, right) == left.kind = "number" /\ right.kind = "number"

areValuesValidStrings(left, right) == left.kind = "string" /\ right.kind = "string"

Quotient(l, r) ==
    IF r # 0 /\ l % r = 0 THEN NumberValue(l \div r)
    ELSE [kind |-> "number", v |-> l, over |-> r]

\* The arithmetic and comparison cases of visitBinaryExpr but "+": the
\* error is reported and the operation done on the zero values all the same.
NumericBinary(i, operator, left, right, text, result) ==
    Returns(IF areValuesValidFloats(left, right) THEN i
            ELSE reportRuntime(i, operator.line,
                     "Operands must be numbers when using the '" \o text \o "' operator."),
            result)

RECURSIVE evaluate(_, _)

visitBinaryExpr(i, e) ==
    LET l == evaluate(i, e.left)
        r == evaluate(l, e.right)
        left == l.value
        right == r.value
        t == e.operator.tokenType
    IN CASE t = "Greater" ->
              NumericBinary(r, e.operator, left, right, ">",
                            BoolValue(Float(left) > Float(right)))
         [] t = "GreaterEqual" ->
              NumericBinary(r, e.operator, left, right, ">=",
                            BoolValue(Float(left) >= Float(right)))
         [] t = "Less" ->
              NumericBinary(r, e.operator, left, right, "<",
                            BoolValue(Float(left) < Float(right)))
         [] t = "LessEqual" ->
              NumericBinary(r, e.operator, left, right, "<=",
                            BoolValue(Float(left) <= Float(right)))
         [] t = "Minus" ->
              NumericBinary(r, e.operator, left, right, "-",
                            NumberValue(Float(left) - Float(right)))
         [] t = "Plus" ->
              IF areValuesValidFloats(left, right)
              THEN Returns(r, NumberValue(left.v + right.v))
              ELSE IF areValuesValidStrings(left, right)
              THEN Returns(r, StringValue(left.v \o right.v))
              ELSE Returns(reportRuntime(r, e.operator.line,
                       "Operands must be numbers or strings and be the same type when using the '+' operator."),
                           NilValue)
         [] t = "Slash" ->
              NumericBinary(r, e.operator, left, right, "/",
                            Quotient(Float(left), Float(right)))
         [] t = "Star" ->
              NumericBinary(r, e.operator, left, right, "*",
                            NumberValue(Float(left) * Float(right)))
         [] t = "EqualEqual" -> Returns(r, BoolValue(left = right))
         [] t = "BangEqual" -> Returns(r, BoolValue(left # right))
         [] OTHER -> Returns(r, NilValue)

visitGroupingExpr(i, e) == evaluate(i, e.expression)

visitLiteralExpr(i, e) == Returns(i, e.value)

visitUnaryExpr(i, e) ==
    LET r == evaluate(i, e.right)
        right == r.value
    IN CASE e.operator.tokenType = "Bang" -> Returns(r, BoolValue(~isTruthy(right)))
         [] e.operator.tokenType = "Minus" ->
              Returns(IF right.kind = "number" THEN r
                      ELSE reportRuntime(r, e.operator.line, "Operand must be a number."),
                      NumberValue(-1 * Float(right)))
         [] OTHER -> Returns(r, NilValue)

evaluate(i, e) ==
    CASE e.type = "BinaryExpr" -> visitBinaryExpr(i, e)
      [] e.type = "GroupingExpr" -> visitGroupingExpr(i, e)
      [] e.type = "LiteralExpr" -> visitLiteralExpr(i, e)
      [] e.type = "UnaryExpr" -> visitUnaryExpr(i, e)

\* Interpreter.Interpret: the value is printed unless an error was reported.
Interpret(i, e) ==
    LET r == evaluate(i, e) IN
    IF r.HadRuntimeError THEN r
    ELSE [r EXCEPT !.stdout = Append(@, stringify(r.value) \o "\n")]

(***************************************************************************)
(* The expressions evaluated: the literals, the binary operations on two   *)
(* literals, and up to MaxWrap unary operators and groupings around these. *)
(***************************************************************************)
MaxWrap == 2

Values == {NilValue, BoolValue(TRUE), BoolValue(FALSE), NumberValue(0), NumberValue(1),
           StringValue(""), StringValue("s")}

Literals == {LiteralExpr(0, v) : v \in Values}

BinaryOperators == {">", ">=", "<", "<=", "-", "+", "/", "*", "==", "!="}

BinaryExprs == {BinaryExpr(0, l, scanToken(o, 1), r) :
                    l \in Literals, o \in BinaryOperators, r \in Literals}

RECURSIVE Wrapped(_)
Wrapped(n) ==
    IF n = 0 THEN Literals \cup BinaryExprs
    ELSE LET inner == Wrapped(n - 1) IN
         inner
         \cup {[type |-> "UnaryExpr", id |-> 0, operator |-> scanToken(o, 1), right |-> e] :
                   o \in {"!", "-"}, e \in inner}
         \cup {[type |-> "GroupingExpr", id |-> 0, expression |-> e] : e \in inner}

Exprs == Wrapped(MaxWrap)

EvalInit ==
    /\ pc = "interpret"
    /\ PassesIdle
    /\ exprIn \in Exprs
    /\ valueOut = NilValue
    /\ errorHandler = NewErrorHandler
    /\ stdout = <<>>
    /\ parser = NewParser(ScanTokens(<<>>), FALSE, <<>>)
    /\ statements = <<>>
    /\ before = parser
    /\ DriverIdle

EvalInterpret ==
    /\ pc = "interpret"
    /\ LET i == Interpret([HadRuntimeError |-> errorHandler.HadRuntimeError,
                           stdout |-> stdout, value |-> NilValue], exprIn)
       IN /\ valueOut' = i.value
          /\ errorHandler' = [errorHandler EXCEPT !.HadRuntimeError = i.HadRuntimeError]
          /\ stdout' = i.stdout
    /\ pc' = "interpreted"
    /\ UNCHANGED <<exprIn, parserVars, driverVars, resolveVars, scanner>>

EvalNext == EvalInterpret

SpecEval == EvalInit /\ [][EvalNext]_vars

\* C1: truthiness.  Whatever value x the operand of "!" evaluates to, "!x"
\* is true exactly when x is nil or false: every number, 0 too, and every
\* string, the empty one too, is truthy.
Truthiness ==
    pc = "interpreted" /\ exprIn.type = "UnaryExpr" /\ exprIn.operator.tokenType = "Bang"
        => LET x == evaluate([HadRuntimeError |-> FALSE, stdout |-> <<>>,
                              value |-> NilValue], exprIn.right).value
           IN /\ isTruthy(x) = (x \notin {NilValue, BoolValue(FALSE)})
              /\ valueOut = BoolValue(x \in {NilValue, BoolValue(FALSE)})

\* C1: "!0" was evaluated, and its value is true.
ZeroIsFalsy ==
    /\ pc = "interpreted"
    /\ exprIn = [type |-> "UnaryExpr", id |-> 0, operator |-> scanToken("!", 1),
               right |-> LiteralExpr(0, NumberValue(0))]
    /\ valueOut = BoolValue(TRUE)
    /\ stdout = <<"true\n">>

(***************************************************************************)
(* The resolver (src/unnamed/part_006).  A resolver r is the record        *)
(* [scopes, currentFunctionType, currentClassType, locals, HadError,       *)
(* stderr]: a scope maps a name to whether it is defined, locals is the    *)
(* interpreter's side table (expression id to distance), and HadError and  *)
(* stderr are those of the error handler.                                  *)
(***************************************************************************)
Put(m, k, v) == [x \in DOMAIN m \cup {k} |-> IF x = k THEN v ELSE m[x]]

EmptyMap == [x \in {} |-> TRUE]

NewResolver(locals, HadError, written) ==
    [scopes |-> <<>>, currentFunctionType |-> "ftNone", currentClassType |-> "ctNone",
     locals |-> locals, HadError |-> HadError, stderr |-> written]

beginScope(r) == [r EXCEPT !.scopes = Append(@, EmptyMap)]

\* An endScope that leaves the scope on the stack.
endScopeKept(r) == r

endScope(r) == [r EXCEPT !.scopes = SubSeq(@, 1, Len(@) - 1)]

\* scope[name] = defined in the innermost scope.
SetInScope(r, name, defined) ==
    [r EXCEPT !.scopes[Len(r.scopes)] = Put(@, name, defined)]

\* A declare that looks for the name in every scope of the stack.
declareAgainstEveryScope(r, name) ==
    IF Len(r.scopes) = 0 THEN r
    ELSE SetInScope(IF \E i \in 1..Len(r.scopes) : name.lexeme \in DOMAIN r.scopes[i]
                    THEN reportStaticError(r, name.line, name.lexeme,
                             "Already a variable with this name is this scope.", FALSE)
                    ELSE r,
                    name.lexeme, FALSE)

declare(r, name) ==
    IF Len(r.scopes) = 0 THEN r
    ELSE SetInScope(IF name.lexeme \in DOMAIN r.scopes[Len(r.scopes)]
                    THEN reportStaticError(r, name.line, name.lexeme,
                             "Already a variable with this name is this scope.", FALSE)
                    ELSE r,
                    name.lexeme, FALSE)

define(r, name) ==
    IF Len(r.scopes) = 0 THEN r ELSE SetInScope(r, name.lexeme, TRUE)

\* Interpreter.resolve, called by resolveLocal: the side table entry.
resolve(r, e, depth) == [r EXCEPT !.locals = Put(@, e.id, depth)]

\* A resolveLocal that records the index of the scope counted from the
\* outermost one.
resolveLocalFromOutermost(r, e, name) ==
    LET found == {i \in 1..Len(r.scopes) : name.lexeme \in DOMAIN r.scopes[i]} IN
    IF found = {} THEN r
    ELSE LET i == CHOOSE k \in found : \A j \in found : j <= k IN
         resolve(r, e, i - 1)

resolveLocal(r, e, name) ==
    LET found == {i \in 1..Len(r.scopes) : name.lexeme \in DOMAIN r.scopes[i]} IN
    IF found = {} THEN r
    ELSE LET i == CHOOSE k \in found : \A j \in found : j <= k IN
         resolve(r, e, Len(r.scopes) - i)

RECURSIVE ResolveStatements(_, _), resolveStatement(_, _), resolveExpression(_, _),
          resolveFunction(_, _, _), resolveParams(_, _), resolveMethods(_, _),
          resolveExpressions(_, _)

ResolveStatements(r, stmts) ==
    IF stmts = <<>> THEN r
    ELSE ResolveStatements(resolveStatement(r, Head(stmts)), Tail(stmts))

\* The loop of resolveFunction over the parameters.
resolveParams(r, params) ==
    IF params = <<>> THEN r
    ELSE resolveParams(define(declare(r, Head(params)), Head(params)), Tail(params))

\* A resolveFunction that leaves currentFunctionType as the body had it.
resolveFunctionKeepsType(r, fn, functionType) ==
    endScope(ResolveStatements(
                 resolveParams(beginScope([r EXCEPT !.currentFunctionType = functionType]),
                               fn.params),
                 fn.body))

resolveFunction(r, fn, functionType) ==
    [endScope(ResolveStatements(
                  resolveParams(beginScope([r EXCEPT !.currentFunctionType = functionType]),
                                fn.params),
                  fn.body))
        EXCEPT !.currentFunctionType = r.currentFunctionType]

\* The loop of visitClassStmt over the methods.
resolveMethods(r, methods) ==
    IF methods = <<>> THEN r
    ELSE resolveMethods(
             resolveFunction(r, Head(methods),
                             IF Head(methods).name.lexeme = "init" THEN "ftInitializer"
                             ELSE "ftMethod"),
             Tail(methods))

\* visitClassStmt up to the scope of "super": d is the resolver after the
\* class name was declared and defined.
resolveSuperclass(d, stmt) ==
    IF stmt.superclass.id # 0
    THEN SetInScope(
             beginScope(
                 resolveExpression(
                     [(IF stmt.name.lexeme = stmt.superclass.name.lexeme
                       THEN reportStaticError(d, stmt.superclass.name.line,
                                stmt.superclass.name.lexeme,
                                "A class can't inherit from itself.", FALSE)
                       ELSE d) EXCEPT !.currentClassType = "ctSubClass"],
                     stmt.superclass)),
             "super", TRUE)
    ELSE d

\* visitClassStmt from the end of the scope of "this" on.
resolveClassEnd(r, stmt, m) ==
    [(IF stmt.superclass.id # 0 THEN endScope(endScope(m)) ELSE endScope(m))
        EXCEPT !.currentClassType = r.currentClassType]

visitClassStmt(r, stmt) ==
    resolveClassEnd(r, stmt,
        resolveMethods(
            SetInScope(
                beginScope(
                    resolveSuperclass(
                        define(declare([r EXCEPT !.currentClassType = "ctClass"], stmt.name),
                               stmt.name),
                        stmt)),
                "this", TRUE),
            stmt.methods))

visitReturnStmt(r, stmt) ==
    LET a == IF r.currentFunctionType = "ftNone"
             THEN reportStaticError(r, stmt.keyword.line, stmt.keyword.lexeme,
                                    "Can't return from top level code.", FALSE)
             ELSE r
    IN IF stmt.value # NilNode
       THEN resolveExpression(
                IF a.currentFunctionType = "ftInitializer"
                THEN reportStaticError(a, stmt.keyword.line, stmt.keyword.lexeme,
                                       "Can't return a vlaue from an intializer.", FALSE)
                ELSE a,
                stmt.value)
       ELSE a

\* A visitVarStmt that defines the name before it resolves the initializer.
visitVarStmtDefinesFirst(r, stmt) ==
    IF stmt.initializer # NilNode
    THEN resolveExpression(define(declare(r, stmt.name), stmt.name), stmt.initializer)
    ELSE define(declare(r, stmt.name), stmt.name)

visitVarStmt(r, stmt) ==
    define(IF stmt.initializer # NilNode
           THEN resolveExpression(declare(r, stmt.name), stmt.initializer)
           ELSE declare(r, stmt.name),
           stmt.name)

visitIfStmt(r, stmt) ==
    LET t == resolveStatement(resolveExpression(r, stmt.condition), stmt.thenBranch) IN
    IF stmt.elseBranch # NilNode THEN resolveStatement(t, stmt.elseBranch) ELSE t

resolveStatement(r, stmt) ==
    CASE stmt.type = "BlockStmt" ->
            endScope(ResolveStatements(beginScope(r), stmt.statements))
      [] stmt.type = "ClassStmt" -> visitClassStmt(r, stmt)
      [] stmt.type = "ExprStmt" -> resolveExpression(r, stmt.expr)
      [] stmt.type = "FunctionStmt" ->
            resolveFunction(define(declare(r, stmt.name), stmt.name), stmt, "ftFunction")
      [] stmt.type = "IfStmt" -> visitIfStmt(r, stmt)
      [] stmt.type = "PrintStmt" -> resolveExpression(r, stmt.expr)
      [] stmt.type = "ReturnStmt" -> visitReturnStmt(r, stmt)
      [] stmt.type = "VarStmt" -> visitVarStmt(r, stmt)
      [] stmt.type = "WhileStmt" ->
            resolveStatement(resolveExpression(r, stmt.condition), stmt.body)

\* The loop of visitCallExpr over the arguments.
resolveExpressions(r, exprs) ==
    IF exprs = <<>> THEN r
    ELSE resolveExpressions(resolveExpression(r, Head(exprs)), Tail(exprs))

visitSuperExpr(r, e) ==
    LET a == IF r.currentClassType = "ctNone"
             THEN reportStaticError(r, e.keyword.line, e.keyword.lexeme,
                                    "Can't use 'super' outside of a class.", FALSE)
             ELSE r
        b == IF a.currentClassType # "ctSubClass"
             THEN reportStaticError(a, e.keyword.line, e.keyword.lexeme,
                                    "Can't user 'super' in a class with no superclass.", FALSE)
             ELSE a
    IN resolveLocal(b, e, e.keyword)

visitThisExpr(r, e) ==
    resolveLocal(IF r.currentClassType = "ctNone"
                 THEN reportStaticError(r, e.keyword.line, e.keyword.lexeme,
                                        "Can't use 'this' outside of a class.", FALSE)
                 ELSE r,
                 e, e.keyword)

visitVariableExpr(r, e) ==
    resolveLocal(IF /\ Len(r.scopes) # 0
                    /\ e.name.lexeme \in DOMAIN r.scopes[Len(r.scopes)]
                    /\ ~r.scopes[Len(r.scopes)][e.name.lexeme]
                 THEN reportStaticError(r, e.name.line, e.name.lexeme,
                          "Can't read local variable in its own initializer.", FALSE)
                 ELSE r,
                 e, e.name)

resolveExpression(r, e) ==
    CASE e.type = "AssignExpr" -> resolveLocal(resolveExpression(r, e.value), e, e.name)
      [] e.type = "BinaryExpr" -> resolveExpression(resolveExpression(r, e.left), e.right)
      [] e.type = "CallExpr" -> resolveExpressions(resolveExpression(r, e.callee), e.args)
      [] e.type = "GetExpr" -> resolveExpression(r, e.object)
      [] e.type = "GroupingExpr" -> resolveExpression(r, e.expression)
      [] e.type = "LiteralExpr" -> r
      [] e.type = "LogicalExpr" -> resolveExpression(resolveExpression(r, e.left), e.right)
      [] e.type = "SetExpr" -> resolveExpression(resolveExpression(r, e.value), e.object)
      [] e.type = "SuperExpr" -> visitSuperExpr(r, e)
      [] e.type = "ThisExpr" -> visitThisExpr(r, e)
      [] e.type = "UnaryExpr" -> resolveExpression(r, e.right)
      [] e.type = "VariableExpr" -> visitVariableExpr(r, e)

(***************************************************************************)
(* The environment (src/lang/environment.go), the user function            *)
(* (src/unnamed/part_010) and what the interpreter does with statements.   *)
(* An execution x is the record [globals, heap, environment, locals,       *)
(* HadRuntimeError, stdout, stderr, panicking, panic, value].  globals is  *)
(* the value map of the global environment, heap the sequence of the other *)
(* environments made so far, each [enclosing, values]; an environment is   *)
(* named by its index in heap, the globals by GlobalEnv and the nil        *)
(* pointer by NilEnv.  environment is the current one, locals the side     *)
(* table, panic what unwinds the stack: a runtime error, a returnContent   *)
(* or a panic of the Go runtime.                                           *)
(***************************************************************************)
GlobalEnv == 0

NilEnv == -1

RuntimeErrorMsg(line, err) == "[line " \o ToString(line) \o "] " \o err \o "\n"

reportRuntimeError(x, line, err) ==
    [x EXCEPT !.HadRuntimeError = TRUE, !.panicking = TRUE,
              !.panic = [kind |-> "runtimeError", msg |-> RuntimeErrorMsg(line, err)]]

\* A nil environment was dereferenced: a panic of the Go runtime.
nilDereference(x) == [x EXCEPT !.panicking = TRUE, !.panic = [kind |-> "goPanic"]]

UndefinedVariable(name) == "Undefined variable '" \o name.lexeme \o "'."

\* env.values and env.enclosing.
envValues(x, env) == IF env = GlobalEnv THEN x.globals ELSE x.heap[env].values

envEnclosing(x, env) == IF env = GlobalEnv THEN NilEnv ELSE x.heap[env].enclosing

\* newChildEnvironment: the new environment is the last of the heap.
newChildEnvironment(x, parentEnv) ==
    [x EXCEPT !.heap = Append(@, [enclosing |-> parentEnv, values |-> EmptyMap])]

\* env.values[name] = v.
envPut(x, env, name, v) ==
    IF env = GlobalEnv THEN [x EXCEPT !.globals = Put(@, name, v)]
    ELSE [x EXCEPT !.heap[env].values = Put(@, name, v)]

\* environment.define.
envDefine(x, env, name, v) == envPut(x, env, name, v)

\* environment.ancestor: distance links out of env; NilEnv stands for the
\* nil pointer and for the panic of following the link of a nil pointer.
RECURSIVE ancestor(_, _, _)
ancestor(x, env, distance) ==
    IF distance = 0 \/ env = NilEnv THEN env
    ELSE ancestor(x, envEnclosing(x, env), distance - 1)

\* environment.getAt: the environment distance links out is the one looked in.
envGetAt(x, env, distance, name) ==
    LET a == ancestor(x, env, distance) IN
    IF a = NilEnv THEN nilDereference(x)
    ELSE IF name.lexeme \in DOMAIN envValues(x, a)
    THEN Returns(x, envValues(x, a)[name.lexeme])
    ELSE Returns(reportRuntimeError(x, name.line, UndefinedVariable(name)), NilValue)

\* environment.getThisValue: the value of a missing key of a Go map is nil.
getThisValue(x, env) ==
    IF "this" \in DOMAIN envValues(x, env) THEN envValues(x, env)["this"] ELSE NilValue

\* An environment.getSubClassThisValue that looks in the environment that
\* holds super.
getSubClassThisValueAtSuper(x, env, distance) ==
    LET a == ancestor(x, env, distance) IN
    IF a = NilEnv THEN nilDereference(x)
    ELSE Returns(x, getThisValue(x, a))

\* environment.getSubClassThisValue: this is looked up one environment inside
\* the one at the distance of super.
getSubClassThisValue(x, env, distance) ==
    LET a == ancestor(x, env, distance - 1) IN
    IF a = NilEnv THEN nilDereference(x)
    ELSE Returns(x, getThisValue(x, a))

\* environment.get.
RECURSIVE envGet(_, _, _)
envGet(x, env, name) ==
    IF name.lexeme \in DOMAIN envValues(x, env)
    THEN Returns(x, envValues(x, env)[name.lexeme])
    ELSE IF envEnclosing(x, env) # NilEnv THEN envGet(x, envEnclosing(x, env), name)
    ELSE Returns(reportRuntimeError(x, name.line, UndefinedVariable(name)), NilValue)

\* environment.assignAt.
envAssignAt(x, env, distance, name, v) ==
    LET a == ancestor(x, env, distance) IN
    IF a = NilEnv THEN nilDereference(x) ELSE envPut(x, a, name.lexeme, v)

\* environment.assign.
RECURSIVE envAssign(_, _, _, _)
envAssign(x, env, name, v) ==
    IF name.lexeme \in DOMAIN envValues(x, env) THEN envPut(x, env, name.lexeme, v)
    ELSE IF envEnclosing(x, env) # NilEnv THEN envAssign(x, envEnclosing(x, env), name, v)
    ELSE reportRuntimeError(x, name.line, UndefinedVariable(name))

\* The value a FunctionStmt is declared as: the function struct.
NewFunction(decl, closure) ==
    [kind |-> "function", declaration |-> decl, closure |-> closure,
     isInitializer |-> FALSE]

\* function.toString and clock.toString, and stringify for the other values.
toString(v) ==
    IF v.kind = "function" THEN "<fun " \o v.declaration.name.lexeme \o ">"
    ELSE IF v.kind = "native" THEN "<native fun>"
    ELSE IF v.kind = "class" THEN v.name
    ELSE IF v.kind = "instance" THEN v.class.name \o " instance"
    ELSE stringify(v)

\* A variable is read at the distance the side table has for the expression,
\* and in the globals when it has none.
lookUpVariable(x, name, e) ==
    IF e.id \in DOMAIN x.locals THEN envGetAt(x, x.environment, x.locals[e.id], name)
    ELSE envGet(x, GlobalEnv, name)

\* The value v.value is assigned to the variable of the Assign e.
assignVariable(v, e) ==
    IF v.panicking THEN v
    ELSE IF e.id \in DOMAIN v.locals
    THEN envAssignAt(v, v.environment, v.locals[e.id], e.name, v.value)
    ELSE envAssign(v, GlobalEnv, e.name, v.value)

unaryValue(operator, r) ==
    IF r.panicking THEN r
    ELSE CASE operator.tokenType = "Bang" -> Returns(r, BoolValue(~isTruthy(r.value)))
           [] operator.tokenType = "Minus" ->
                IF r.value.kind = "number" THEN Returns(r, NumberValue(-1 * r.value.v))
                ELSE reportRuntimeError(r, operator.line, "Operand must be a number.")

NumbersOrError(r, operator, left, text, result) ==
    IF areValuesValidFloats(left, r.value) THEN Returns(r, result)
    ELSE reportRuntimeError(r, operator.line,
             "Operands must be numbers when using the '" \o text \o "' operator.")

binaryValue(left, operator, r) ==
    IF r.panicking THEN r
    ELSE LET right == r.value
             t == operator.tokenType
         IN CASE t = "Greater" ->
                   NumbersOrError(r, operator, left, ">", BoolValue(Float(left) > Float(right)))
              [] t = "GreaterEqual" ->
                   NumbersOrError(r, operator, left, ">=", BoolValue(Float(left) >= Float(right)))
              [] t = "Less" ->
                   NumbersOrError(r, operator, left, "<", BoolValue(Float(left) < Float(right)))
              [] t = "LessEqual" ->
                   NumbersOrError(r, operator, left, "<=", BoolValue(Float(left) <= Float(right)))
              [] t = "Minus" ->
                   NumbersOrError(r, operator, left, "-", NumberValue(Float(left) - Float(right)))
              [] t = "Slash" ->
                   NumbersOrError(r, operator, left, "/", Quotient(Float(left), Float(right)))
              [] t = "Star" ->
                   NumbersOrError(r, operator, left, "*", NumberValue(Float(left) * Float(right)))
              [] t = "Plus" ->
                   IF areValuesValidFloats(left, right)
                   THEN Returns(r, NumberValue(left.v + right.v))
                   ELSE IF areValuesValidStrings(left, right)
                   THEN Returns(r, StringValue(left.v \o right.v))
                   ELSE reportRuntimeError(r, operator.line,
                            "Operands must be numbers or strings and be the same type when using the '+' operator.")
              [] t = "EqualEqual" -> Returns(r, BoolValue(left = right))
              [] t = "BangEqual" -> Returns(r, BoolValue(left # right))

RECURSIVE evaluateExpr(_, _), execute(_, _), executeStatements(_, _),
          evaluateArgs(_, _, _), whileLoop(_, _)

\* The right operand of a binary operator, once the left one l is evaluated.
binaryRight(l, e) ==
    IF l.panicking THEN l ELSE binaryValue(l.value, e.operator, evaluateExpr(l, e.right))

\* and, or: the operand that decides is the value.
logicalRight(l, e) ==
    IF l.panicking THEN l
    ELSE IF e.operator.tokenType = "Or"
    THEN (IF isTruthy(l.value) THEN l ELSE evaluateExpr(l, e.right))
    ELSE (IF ~isTruthy(l.value) THEN l ELSE evaluateExpr(l, e.right))

\* A block runs with env as the current environment; the one before is the
\* current one again at the end of the block, also when a return or an error
\* unwinds through it.
executeBlock(x, stmts, env) ==
    [executeStatements([x EXCEPT !.environment = env], stmts)
        EXCEPT !.environment = x.environment]

\* The loop of function.call over the parameters.
RECURSIVE defineParams(_, _, _, _)
defineParams(x, funEnv, params, args) ==
    IF params = <<>> THEN x
    ELSE defineParams(envDefine(x, funEnv, Head(params).lexeme, Head(args)),
                      funEnv, Tail(params), Tail(args))

\* A function.call that recovers from no panic: a return passes through it.
functionReturnPassedOn(b, fun) ==
    IF b.panicking THEN b
    ELSE Returns(b, IF fun.isInitializer THEN getThisValue(b, fun.closure) ELSE NilValue)

\* function.call, from the end of executeBlock on: b is the execution it left.
functionReturn(b, fun) ==
    IF b.panicking /\ b.panic.kind = "return"
    THEN [b EXCEPT !.panicking = FALSE, !.panic = NoPanic,
                   !.value = IF fun.isInitializer THEN getThisValue(b, fun.closure)
                             ELSE b.panic.value]
    ELSE IF b.panicking THEN b
    ELSE Returns(b, IF fun.isInitializer THEN getThisValue(b, fun.closure) ELSE NilValue)

\* function.call: the body runs in a new child of the closure.
functionCall(x, fun, args) ==
    LET c == newChildEnvironment(x, fun.closure) IN
    functionReturn(
        executeBlock(defineParams(c, Len(c.heap), fun.declaration.params, args),
                     fun.declaration.body, Len(c.heap)),
        fun)

\* class.findMethod: the method of the class itself, else the one the
\* superclass finds; NilValue stands for the nil it returns when none does.
RECURSIVE findMethod(_, _)
findMethod(c, name) ==
    IF name \in DOMAIN c.methods THEN c.methods[name]
    ELSE IF c.superclass # NilValue THEN findMethod(c.superclass, name)
    ELSE NilValue

\* A class.arity that looks for init in the class itself only.
classArityOwn(c) ==
    IF "init" \in DOMAIN c.methods THEN Len(c.methods["init"].declaration.params) ELSE 0

\* class.arity
classArity(c) ==
    LET initializer == findMethod(c, "init") IN
    IF initializer.kind = "function" THEN Len(initializer.declaration.params) ELSE 0

\* function.bind: the value is the function whose closure is a new child of
\* the closure of fun, in which this is the instance.
bind(x, fun, inst) ==
    LET c == newChildEnvironment(x, fun.closure) IN
    Returns(envDefine(c, Len(c.heap), "this", inst), [fun EXCEPT !.closure = Len(c.heap)])

\* make(map[string]any) for the fields of an instance: the new map is the
\* last of the heap, the values of an entry that encloses nothing.
newFields(x) == [x EXCEPT !.heap = Append(@, [enclosing |-> NilEnv, values |-> EmptyMap])]

\* An instance of the class c whose fields are the map at fields.
Instance(c, fields) == [kind |-> "instance", class |-> c, fields |-> fields]

\* class.call, once the bound initializer has returned or there is none.
classCallReturn(r, inst) == IF r.panicking THEN r ELSE Returns(r, inst)

\* class.call
classCall(x, c, args) ==
    LET f == newFields(x)
        inst == Instance(c, Len(f.heap))
        initializer == findMethod(c, "init")
    IN IF initializer.kind = "function"
       THEN LET b == bind(f, initializer, inst) IN
            classCallReturn(functionCall(b, b.value, args), inst)
       ELSE Returns(f, inst)

\* An instance.get that looks for a method before the fields.
instanceGetMethodFirst(x, inst, name) ==
    LET method == findMethod(inst.class, name.lexeme) IN
    IF method.kind = "function" THEN bind(x, method, inst)
    ELSE IF name.lexeme \in DOMAIN envValues(x, inst.fields)
    THEN Returns(x, envValues(x, inst.fields)[name.lexeme])
    ELSE reportRuntimeError(x, name.line, "Undefined property '" \o name.lexeme \o "'.")

\* instance.get
instanceGet(x, inst, name) ==
    IF name.lexeme \in DOMAIN envValues(x, inst.fields)
    THEN Returns(x, envValues(x, inst.fields)[name.lexeme])
    ELSE LET method == findMethod(inst.class, name.lexeme) IN
         IF method.kind = "function" THEN bind(x, method, inst)
         ELSE reportRuntimeError(x, name.line,
                  "Undefined property '" \o name.lexeme \o "'.")

\* instance.set
instanceSet(x, inst, name, v) == Returns(envPut(x, inst.fields, name.lexeme, v), v)

\* A Get, once the object o.value is evaluated.
getProperty(o, e) ==
    IF o.panicking THEN o
    ELSE IF o.value.kind = "instance" THEN instanceGet(o, o.value, e.name)
    ELSE reportRuntimeError(o, e.name.line, "Only instances have properties.")

\* A Set, once the object and then the value v.value are evaluated.
setPropertyValue(v, object, e) ==
    IF v.panicking THEN v ELSE instanceSet(v, object, e.name, v.value)

\* A Set, once the object o.value is evaluated.
setProperty(o, e) ==
    IF o.panicking THEN o
    ELSE IF o.value.kind = "instance"
    THEN setPropertyValue(evaluateExpr(o, e.value), o.value, e)
    ELSE reportRuntimeError(o, e.name.line, "Only instances have fields.")

\* super.method, once this, at t.value, is read: the method the superclass
\* finds, bound to this.
superMethod(t, superclass, e) ==
    IF t.panicking THEN t
    ELSE LET method == findMethod(superclass, e.method.lexeme) IN
         IF method.kind = "function" THEN bind(t, method, t.value)
         ELSE reportRuntimeError(t, e.method.line,
                  "Undefined property '" \o e.method.lexeme \o "'.")

\* super.method, once the superclass, at s.value, is read at the distance
\* the side table has for the expression.
superThis(s, e) ==
    IF s.panicking THEN s
    ELSE superMethod(getSubClassThisValue(s, s.environment, s.locals[e.id]), s.value, e)

\* super.method
visitSuperExprValue(x, e) ==
    IF e.id \in DOMAIN x.locals
    THEN superThis(envGetAt(x, x.environment, x.locals[e.id], e.keyword), e)
    ELSE nilDereference(x)

\* time.Now(): a time.Time, which is no float64, string or bool.
TimeValue == [kind |-> "time", v |-> "<time>"]

\* clock.call
clockCall(x) == Returns(x, TimeValue)

\* arity() of a callable.
callableArity(callee) ==
    CASE callee.kind = "function" -> Len(callee.declaration.params)
      [] callee.kind = "native" -> 0
      [] callee.kind = "class" -> classArity(callee)

\* call() of a callable.
callableCall(x, callee, args) ==
    CASE callee.kind = "function" -> functionCall(x, callee, args)
      [] callee.kind = "native" -> clockCall(x)
      [] callee.kind = "class" -> classCall(x, callee, args)

\* The call of the callee with the arguments a.value, once both are evaluated.
callValue(a, callee, e) ==
    IF a.panicking THEN a
    ELSE IF callee.kind \notin {"function", "native", "class"}
    THEN reportRuntimeError(a, e.paren.line, "Can only call functions and classes.")
    ELSE IF Len(a.value) # callableArity(callee)
    THEN reportRuntimeError(a, e.paren.line,
             "Expected " \o ToString(callableArity(callee))
                 \o " arguments but got " \o ToString(Len(a.value)) \o ".")
    ELSE callableCall(a, callee, a.value)

\* The arguments of a call, left to right: the value is the sequence of theirs.
evaluateArgs(x, exprs, values) ==
    IF x.panicking THEN x
    ELSE IF exprs = <<>> THEN Returns(x, values)
    ELSE LET v == evaluateExpr(x, Head(exprs)) IN
         evaluateArgs(v, Tail(exprs), Append(values, v.value))

callArgs(c, e) ==
    IF c.panicking THEN c ELSE callValue(evaluateArgs(c, e.args, <<>>), c.value, e)

evaluateExpr(x, e) ==
    CASE e.type = "LiteralExpr" -> Returns(x, e.value)
      [] e.type = "GroupingExpr" -> evaluateExpr(x, e.expression)
      [] e.type = "UnaryExpr" -> unaryValue(e.operator, evaluateExpr(x, e.right))
      [] e.type = "BinaryExpr" -> binaryRight(evaluateExpr(x, e.left), e)
      [] e.type = "LogicalExpr" -> logicalRight(evaluateExpr(x, e.left), e)
      [] e.type = "VariableExpr" -> lookUpVariable(x, e.name, e)
      [] e.type = "AssignExpr" -> assignVariable(evaluateExpr(x, e.value), e)
      [] e.type = "CallExpr" -> callArgs(evaluateExpr(x, e.callee), e)
      [] e.type = "GetExpr" -> getProperty(evaluateExpr(x, e.object), e)
      [] e.type = "SetExpr" -> setProperty(evaluateExpr(x, e.object), e)
      [] e.type = "ThisExpr" -> lookUpVariable(x, e.keyword, e)
      [] e.type = "SuperExpr" -> visitSuperExprValue(x, e)

printValueOf(v) ==
    IF v.panicking THEN v ELSE [v EXCEPT !.stdout = Append(@, toString(v.value) \o "\n")]

defineValueOf(v, name) ==
    IF v.panicking THEN v ELSE envDefine(v, v.environment, name.lexeme, v.value)

ifBranch(c, stmt) ==
    IF c.panicking THEN c
    ELSE IF isTruthy(c.value) THEN execute(c, stmt.thenBranch)
    ELSE IF stmt.elseBranch # NilNode THEN execute(c, stmt.elseBranch)
    ELSE c

\* A return unwinds to the call with the value, nil when there is none.
returnValueOf(v) ==
    IF v.panicking THEN v
    ELSE [v EXCEPT !.panicking = TRUE, !.panic = [kind |-> "return", value |-> v.value]]

\* while: the condition, then the body, as long as the condition is truthy.
whileLoop(x, stmt) ==
    LET c == evaluateExpr(x, stmt.condition) IN
    IF c.panicking \/ ~isTruthy(c.value) THEN c
    ELSE LET b == execute(c, stmt.body) IN
         IF b.panicking THEN b ELSE whileLoop(b, stmt)

\* The method table of a class: each method is a function whose closure is
\* the environment the class is made in.
RECURSIVE classMethodTable(_, _)
classMethodTable(methods, closure) ==
    IF methods = <<>> THEN EmptyMap
    ELSE Put(classMethodTable(Tail(methods), closure), Head(methods).name.lexeme,
             [NewFunction(Head(methods), closure)
                 EXCEPT !.isInitializer = Head(methods).name.lexeme = "init"])

\* A class statement, once the superclass clause is evaluated: s.value is the
\* superclass when there is a clause.  The name is defined as nil, the
\* methods close over a child environment that binds super when there is a
\* superclass, and the class is assigned to the name.
classValue(s, stmt) ==
    IF s.panicking THEN s
    ELSE IF stmt.superclass.id # 0 /\ s.value.kind # "class"
    THEN reportRuntimeError(s, stmt.superclass.name.line, "Superclass must be a class.")
    ELSE LET d == envDefine(s, s.environment, stmt.name.lexeme, NilValue)
             c == IF stmt.superclass.id # 0
                  THEN newChildEnvironment(d, d.environment)
                  ELSE d
             closure == IF stmt.superclass.id # 0 THEN Len(c.heap) ELSE d.environment
             b == IF stmt.superclass.id # 0
                  THEN envDefine(c, closure, "super", s.value)
                  ELSE c
         IN envAssign(b, b.environment, stmt.name,
                      [kind |-> "class", name |-> stmt.name.lexeme,
                       superclass |-> IF stmt.superclass.id # 0 THEN s.value ELSE NilValue,
                       methods |-> classMethodTable(stmt.methods, closure)])

execute(x, stmt) ==
    CASE stmt.type = "ExprStmt" -> evaluateExpr(x, stmt.expr)
      [] stmt.type = "ClassStmt" ->
            classValue(IF stmt.superclass.id # 0 THEN evaluateExpr(x, stmt.superclass)
                       ELSE Returns(x, NilValue),
                       stmt)
      [] stmt.type = "PrintStmt" -> printValueOf(evaluateExpr(x, stmt.expr))
      [] stmt.type = "VarStmt" ->
            defineValueOf(IF stmt.initializer # NilNode
                          THEN evaluateExpr(x, stmt.initializer)
                          ELSE Returns(x, NilValue),
                          stmt.name)
      [] stmt.type = "FunctionStmt" ->
            envDefine(x, x.environment, stmt.name.lexeme, NewFunction(stmt, x.environment))
      [] stmt.type = "BlockStmt" ->
            LET c == newChildEnvironment(x, x.environment) IN
            executeBlock(c, stmt.statements, Len(c.heap))
      [] stmt.type = "IfStmt" -> ifBranch(evaluateExpr(x, stmt.condition), stmt)
      [] stmt.type = "ReturnStmt" ->
            returnValueOf(IF stmt.value # NilNode THEN evaluateExpr(x, stmt.value)
                          ELSE Returns(x, NilValue))
      [] stmt.type = "WhileStmt" -> whileLoop(x, stmt)

executeStatements(x, stmts) ==
    IF x.panicking \/ stmts = <<>> THEN x
    ELSE executeStatements(execute(x, Head(stmts)), Tail(stmts))

\* The globals of a new interpreter hold the native function clock; its side
\* table is empty and no other environment is made yet.
NewInterpreter ==
    [globals |-> [n \in {"clock"} |-> [kind |-> "native"]], locals |-> EmptyMap,
     heap |-> <<>>]

\* The execution of an interpreter whose current environment is the globals.
NewExecution(i, HadRuntimeError, out, written) ==
    [globals |-> i.globals, heap |-> i.heap, environment |-> GlobalEnv,
     locals |-> i.locals, HadRuntimeError |-> HadRuntimeError,
     stdout |-> out, stderr |-> written,
     panicking |-> FALSE, panic |-> NoPanic, value |-> NilValue]

\* What Interpret does with the panic the statements ended with: a runtime
\* error is written to stderr.
InterpretRecover(r) ==
    IF r.panicking /\ r.panic.kind = "runtimeError"
    THEN [r EXCEPT !.panicking = FALSE, !.panic = NoPanic, !.stderr = Append(@, r.panic.msg)]
    ELSE r

\* Interpret: the statements in order up to the first runtime error.
InterpretStatements(x, stmts) == InterpretRecover(executeStatements(x, stmts))

(***************************************************************************)
(* The driver (src/parser/parser.go, lines 196-281).  A source is the      *)
(* sequence of its lexemes.  The world w of a run is the record            *)
(* [errorHandler, interpreter, stdout, stderr, crashed].                   *)
(***************************************************************************)
\* The characters scanToken knows none of (src/unnamed/part_010, line 265).
Unexpected == {"@", "#"}

Scannable(w) == w \notin Unexpected

\* ErrorHandler.report, as the scanner calls it: the diagnostic is printed
\* and the flag set.
report(w, line, where, err) ==
    [w EXCEPT !.errorHandler.HadError = TRUE,
              !.stdout = Append(@, StaticErrorMsg(line, where, err))]

\* The reports of the scanner, one for each unexpected character.
RECURSIVE scanReports(_, _)
scanReports(w, source) ==
    IF source = <<>> THEN w
    ELSE scanReports(IF Scannable(Head(source)) THEN w
                     ELSE report(w, 1, "", "Unexpected character."),
                     Tail(source))

\* run, after Interpret.
runInterpreted(w, x) ==
    [w EXCEPT !.errorHandler.HadRuntimeError = x.HadRuntimeError,
              !.interpreter.globals = x.globals,
              !.interpreter.heap = x.heap,
              !.interpreter.locals = x.locals,
              !.stdout = x.stdout, !.stderr = x.stderr,
              !.crashed = x.panicking]

\* A run() that calls Interpret whatever the resolver reported.
runResolvedAnyway(w, stmts, r) ==
    runInterpreted([w EXCEPT !.errorHandler.HadError = @ \/ r.HadError],
        InterpretStatements(
            NewExecution([w.interpreter EXCEPT !.locals = r.locals],
                         w.errorHandler.HadRuntimeError, w.stdout, r.stderr),
            stmts))

\* run, after the resolver r has resolved the statements.
runResolved(w, stmts, r) ==
    IF r.HadError
    THEN [w EXCEPT !.errorHandler.HadError = TRUE, !.stderr = r.stderr,
                   !.interpreter.locals = r.locals]
    ELSE runInterpreted(w,
             InterpretStatements(
                 NewExecution([w.interpreter EXCEPT !.locals = r.locals],
                              w.errorHandler.HadRuntimeError, w.stdout, r.stderr),
                 stmts))

\* run, after Parse.
runParsed(w, parsed) ==
    IF parsed.p.HadError
    THEN [w EXCEPT !.errorHandler.HadError = TRUE, !.stderr = parsed.p.stderr]
    ELSE runResolved(w, parsed.statements,
             ResolveStatements(NewResolver(w.interpreter.locals, FALSE, parsed.p.stderr),
                               parsed.statements))

\* run, after ScanTokens.
runScanned(w, tokens) ==
    runParsed(w, Parse(NewParser(tokens, w.errorHandler.HadError, w.stderr)))

run(source, w) == runScanned(scanReports(w, source), ScanTokens(SelectSeq(source, Scannable)))

\* What the process is before main runs: nothing written, no exit code.
NewWorld ==
    [errorHandler |-> NewErrorHandler, interpreter |-> NewInterpreter,
     stdout |-> <<>>, stderr |-> <<>>, crashed |-> FALSE]

\* A runFile() without the test of HadRuntimeError.
runFileExitStaticOnly(w) ==
    IF w.crashed THEN 2
    ELSE IF w.errorHandler.HadError THEN 65
    ELSE 0

\* The exit code runFile() ends the process with; 0 when it returns to main.
\* A panic of the Go runtime ends it with 2.
runFileExit(w) ==
    IF w.crashed THEN 2
    ELSE IF w.errorHandler.HadError THEN 65
    ELSE IF w.errorHandler.HadRuntimeError THEN 70
    ELSE 0

\* A loop of runPrompt() that clears HadRuntimeError only.
runPromptTurnKeepsHadError(w) == [w EXCEPT !.errorHandler.HadRuntimeError = FALSE]

\* One turn of the loop of runPrompt() on a line read: the line is run and
\* the two flags are cleared.
runPromptTurn(w) ==
    [w EXCEPT !.errorHandler.HadError = FALSE, !.errorHandler.HadRuntimeError = FALSE]

(***************************************************************************)
(* The process: main() with its arguments, the file the first one names    *)
(* and the lines on stdin.  A step is main() up to the loop of runPrompt() *)
(* or to the end of the process, or one turn of that loop.  The log keeps, *)
(* for each turn, what was read and the flags run() left.                  *)
(***************************************************************************)
MaxLines == 2

MaxTurns == 4

CleanSources ==
    {<<>>,
     <<"print", "1", ";">>,
     <<"var", "a", "=", "1", ";", "print", "a", ";">>,
     <<"fun", "f", "(", ")", "{", "}", "print", "f", ";">>,
     <<"{", "var", "a", "=", "1", ";", "print", "a", ";", "}">>,
     <<"if", "(", "true", ")", "print", "\"s\"", ";">>}

StaticErrorSources ==
    {<<"@">>,
     <<"print", "1", ";", "#">>,
     <<"print", ";">>,
     <<"1", "=", "2", ";">>,
     <<"return", "1", ";">>,
     <<"{", "var", "a", "=", "a", ";", "}">>,
     <<"print", "b", ";", "print", ";">>,
     <<"print", "-", "\"s\"", ";", "return", ";">>,
     <<"var", "a", "=", "1", ";", "print", "a", ";", "print", ";">>,
     <<"var", "a", "=", "1", ";", "print", "a", ";", "return", ";">>}

RuntimeErrorSources ==
    {<<"print", "b", ";">>,
     <<"print", "-", "\"s\"", ";">>,
     <<"print", "1", ";", "print", "1", "+", "nil", ";">>,
     <<"b", "=", "1", ";">>}

FileSources == CleanSources \cup StaticErrorSources \cup RuntimeErrorSources

\* Lines whose expressions share ids: the use of a in the inner block of
\* NestedUseLine and the one in GlobalUseLine are both the second expression
\* of their line, as are the use of a in the body of f in FunctionLine and
\* the use of the local a in LocalThenCallLine.
NestedUseLine == <<"{", "var", "a", "=", "1", ";", "{", "print", "a", ";", "}", "}">>

GlobalUseLine == <<"var", "a", "=", "1", ";", "print", "a", ";">>

FunctionLine == <<"var", "a", "=", "1", ";", "fun", "f", "(", ")", "{", "print", "a", ";", "}">>

LocalThenCallLine == <<"{", "var", "a", "=", "2", ";", "print", "a", ";", "}", "f", "(", ")", ";">>

Lines ==
    {NestedUseLine, GlobalUseLine, FunctionLine, LocalThenCallLine,
     <<"var", "a", "=", "1", ";">>, <<"print", "a", ";">>,
     <<"fun", "f", "(", ")", "{", "}">>, <<"print", "f", ";">>,
     <<"print", "1", ";">>, <<"print", ";">>, <<"return", ";">>,
     <<"print", "-", "\"s\"", ";">>, <<"@">>,
     <<"var", "a", "=", "1", ";", "print", "a", ";", "return", ";">>}

RECURSIVE SeqsUpTo(_, _)
SeqsUpTo(S, n) ==
    IF n = 0 THEN {<<>>}
    ELSE LET shorter == SeqsUpTo(S, n - 1) IN
         shorter \cup {Append(q, x) : q \in shorter, x \in S}

MainInit ==
    /\ pc = "main"
    /\ PassesIdle
    /\ osArgs \in {<<>>, <<"script.lox">>, <<"a.lox", "b.lox">>}
    /\ file \in {[readable |-> FALSE, source |-> <<>>]}
                \cup {[readable |-> TRUE, source |-> src] : src \in FileSources}
    /\ stdin \in SeqsUpTo(Lines, MaxLines)
    /\ Len(osArgs) = 0 => ~file.readable
    /\ Len(osArgs) > 0 => stdin = <<>>
    /\ errorHandler = NewErrorHandler
    /\ interpreter = NewInterpreter
    /\ stdout = <<>> /\ stderr = <<>>
    /\ exitCode = NoExit
    /\ log = <<>>
    /\ parser = NewParser(ScanTokens(<<>>), FALSE, <<>>)
    /\ statements = <<>>
    /\ before = parser
    /\ exprIn = NilNode /\ valueOut = NilValue

\* main() with two arguments or more.
MainUsage ==
    /\ pc = "main"
    /\ Len(osArgs) > 1
    /\ stdout' = Append(stdout, "Usage: glox [script]\n")
    /\ exitCode' = 64
    /\ pc' = "exited"
    /\ UNCHANGED <<resolveVars, scanner, parserVars, evalVars, errorHandler, stderr, osArgs,
                   file, stdin,
                   interpreter, log>>

\* runFile(), once run() has left the world w.
FileRan(w) ==
    /\ errorHandler' = w.errorHandler
    /\ interpreter' = w.interpreter
    /\ stdout' = w.stdout
    /\ stderr' = w.stderr
    /\ exitCode' = runFileExit(w)

\* main() with one argument: runFile().
MainRunFile ==
    /\ pc = "main"
    /\ Len(osArgs) = 1
    /\ IF ~file.readable
       THEN /\ stdout' = Append(stdout, "open " \o osArgs[1] \o ": no such file or directory\n")
            /\ exitCode' = 2
            /\ UNCHANGED <<errorHandler, interpreter, stderr>>
       ELSE FileRan(run(file.source, NewWorld))
    /\ pc' = "exited"
    /\ UNCHANGED <<resolveVars, scanner, parserVars, evalVars, osArgs, file, stdin, log>>

\* main() without argument: runPrompt() up to its loop.
MainRunPrompt ==
    /\ pc = "main"
    /\ Len(osArgs) = 0
    /\ errorHandler' = NewErrorHandler
    /\ interpreter' = NewInterpreter
    /\ pc' = "prompt"
    /\ UNCHANGED <<resolveVars, scanner, parserVars, evalVars, stdout, stderr, osArgs, file,
                   stdin, exitCode, log>>

\* A turn of the loop, once run() has left the world ran.
PromptRan(ran) ==
    /\ errorHandler' = runPromptTurn(ran).errorHandler
    /\ interpreter' = ran.interpreter
    /\ stdout' = ran.stdout
    /\ stderr' = ran.stderr
    /\ log' = Append(log, [read |-> "line", HadError |-> ran.errorHandler.HadError,
                           HadRuntimeError |-> ran.errorHandler.HadRuntimeError])
    /\ pc' = IF ran.crashed THEN "exited" ELSE "prompt"
    /\ exitCode' = IF ran.crashed THEN 2 ELSE exitCode

\* A turn of the loop of runPrompt() in which a line is read.
PromptLine ==
    /\ pc = "prompt"
    /\ stdin # <<>>
    /\ Len(log) < MaxTurns
    /\ PromptRan(run(Head(stdin),
                     [errorHandler |-> errorHandler, interpreter |-> interpreter,
                      stdout |-> Append(stdout, "> "), stderr |-> stderr,
                      crashed |-> FALSE]))
    /\ stdin' = Tail(stdin)
    /\ UNCHANGED <<resolveVars, scanner, parserVars, evalVars, osArgs, file>>

\* A turn of the loop of runPrompt() in which ReadString reports the end of
\* the input: the error is printed and the loop goes on.
PromptEOF ==
    /\ pc = "prompt"
    /\ stdin = <<>>
    /\ Len(log) < MaxTurns
    /\ stdout' = stdout \o <<"> ", "EOF\n">>
    /\ log' = Append(log, [read |-> "EOF", HadError |-> errorHandler.HadError,
                           HadRuntimeError |-> errorHandler.HadRuntimeError])
    /\ UNCHANGED <<pc, resolveVars, scanner, parserVars, evalVars, errorHandler, stderr,
                   osArgs, file, stdin,
                   interpreter, exitCode>>

MainNext == MainUsage \/ MainRunFile \/ MainRunPrompt \/ PromptLine \/ PromptEOF

SpecMain == MainInit /\ [][MainNext]_vars

(***************************************************************************)
(* Properties of the process, checked under SpecMain.                      *)
(***************************************************************************)
\* The diagnostics a runtime error can be reported with in these sources.
RuntimeMessages ==
    {RuntimeErrorMsg(1, e) :
        e \in {UndefinedVariable(scanToken(n, 1)) : n \in {"a", "b", "f"}}
              \cup {"Operand must be a number.",
                    "Operands must be numbers or strings and be the same type when using the '+' operator."}
              \cup {"Operands must be numbers when using the '" \o t \o "' operator." :
                        t \in {">", ">=", "<", "<=", "-", "/", "*"}}}

\* A diagnostic of the scanner, the parser or the resolver was written.
StaticErrorReported ==
    \/ \E k \in DOMAIN stderr : stderr[k] \notin RuntimeMessages
    \/ \E k \in DOMAIN stdout : stdout[k] = StaticErrorMsg(1, "", "Unexpected character.")

\* A diagnostic of a runtime error was written.
RuntimeErrorOccurred == \E k \in DOMAIN stderr : stderr[k] \in RuntimeMessages

\* C2: exit codes.  Two arguments or more: 64; a file that cannot be read:
\* 2; a file that can: 65 exactly when a scan, parse or resolve error was
\* reported, 70 exactly when none was and a runtime error occurred, and 0
\* otherwise.
ExitCodes ==
    pc = "exited" =>
        /\ Len(osArgs) >= 2 => exitCode = 64
        /\ Len(osArgs) = 1 /\ ~file.readable => exitCode = 2
        /\ Len(osArgs) = 1 /\ file.readable =>
              /\ exitCode \in {0, 65, 70}
              /\ exitCode = 65 <=> StaticErrorReported
              /\ exitCode = 70 <=> ~StaticErrorReported /\ RuntimeErrorOccurred
              /\ exitCode = 0 <=> ~StaticErrorReported /\ ~RuntimeErrorOccurred
              /\ file.source \in StaticErrorSources => exitCode = 65
              /\ file.source \in RuntimeErrorSources => exitCode = 70
              /\ file.source \in CleanSources => exitCode = 0

\* C2: a file whose second statement fails at run time was run: the first
\* one printed, and the exit code is 70.
ExitCodesWitness ==
    /\ pc = "exited"
    /\ file.readable
    /\ file.source = <<"print", "1", ";", "print", "1", "+", "nil", ";">>
    /\ stdout = <<"1\n">>
    /\ Len(stderr) = 1
    /\ exitCode = 70

\* Reading a line has reported the end of the input.
EOFReported == log # <<>> /\ log[Len(log)].read = "EOF"

\* C3: once reading a line has reported the end of the input, the next step
\* ends the loop: no prompt is printed and no line is run any more.
ReplEndsAtEOF ==
    [][EOFReported => /\ pc' = "exited"
                      /\ stdout' = stdout
                      /\ interpreter' = interpreter]_vars

\* C3: the end of the input was reported twice, and the loop still runs.
PromptsAfterEOF ==
    /\ pc = "prompt"
    /\ Len(log) >= 2
    /\ log[Len(log) - 1].read = "EOF"
    /\ log[Len(log)].read = "EOF"
    /\ stdout = <<"> ", "EOF\n", "> ", "EOF\n">>

\* The turn taken is the line run by an error handler that has seen no
\* error, on the interpreter as it is.
TurnAsAlone(alone) ==
    /\ pc' = "prompt"
    /\ stdout' = stdout \o <<"> ">> \o alone.stdout
    /\ stderr' = stderr \o alone.stderr
    /\ interpreter' = alone.interpreter

ReplForgetsDefinitions ==
    pc = "prompt" => interpreter.globals = NewInterpreter.globals

\* C5: "print a;" entered after "var a = 1;" printed 1.
ReplRemembersVariable ==
    /\ pc = "prompt"
    /\ Len(log) = 2
    /\ stdin = <<>>
    /\ stdout = <<"> ", "> ", "1\n">>
    /\ stderr = <<>>
    /\ "a" \in DOMAIN interpreter.globals

(***************************************************************************)
(* run() from the resolver on (src/parser/parser.go, lines 259-281): the   *)
(* statements of a source that parsed without error are resolved one by    *)
(* one and, when the resolver reported nothing, interpreted one by one.    *)
(* resolver carries the side table, the error flag and what was written to *)
(* stderr; todo is what the loop at hand has still to visit.               *)
(***************************************************************************)
MaxDepth == 2

\* The use of the variable a: a read or an assignment.
UseLexemes(kind) ==
    IF kind = "read" THEN <<"print", "a", ";">> ELSE <<"a", "=", "9", ";">>

\* The use as it stands in its scope: alone, in a function called at once, or
\* in a function called before and after a declaration of a in that scope.
UseForm(kind, form) ==
    CASE form = "direct" -> UseLexemes(kind)
      [] form = "function" ->
            <<"fun", "f", "(", ")", "{">> \o UseLexemes(kind) \o <<"}", "f", "(", ")", ";">>
      [] form = "late" ->
            <<"fun", "f", "(", ")", "{">> \o UseLexemes(kind)
                \o <<"}", "f", "(", ")", ";", "var", "a", "=", "7", ";", "f", "(", ")", ";">>

\* Blocks nested from depth i to the deepest: a is declared with value d at
\* each depth d of D, and used at depth u after the block nested there.
RECURSIVE HopLevel(_, _, _, _, _)
HopLevel(i, D, u, use, deepest) ==
    (IF i \in D THEN <<"var", "a", "=", ToString(i), ";">> ELSE <<>>)
        \o (IF i < deepest THEN <<"{">> \o HopLevel(i + 1, D, u, use, deepest) \o <<"}">>
            ELSE <<>>)
        \o (IF i = u THEN use ELSE <<>>)

Deepest(c) == CHOOSE m \in c.D \cup {c.u} : \A d \in c.D \cup {c.u} : d <= m

HopSource(c) == HopLevel(0, c.D, c.u, UseForm(c.kind, c.form), Deepest(c))

HopCases ==
    {c \in [D : SUBSET (0..MaxDepth), u : 0..MaxDepth, kind : {"read", "write"},
            form : {"direct", "function", "late"}] :
        c.form = "late" => c.u >= 1 /\ c.u \notin c.D}

\* A local scope around the lexemes: a block, a function body, or the body of
\* a method or of an initializer.
Wrap(scope, inner) ==
    CASE scope = "block" -> <<"{">> \o inner \o <<"}">>
      [] scope = "function" -> <<"fun", "f", "(", ")", "{">> \o inner \o <<"}">>
      [] scope = "method" -> <<"class", "A", "{", "m", "(", ")", "{">> \o inner \o <<"}", "}">>
      [] scope = "init" -> <<"class", "A", "{", "init", "(", ")", "{">> \o inner \o <<"}", "}">>

\* The lexemes in the scopes of ctx, the first the outermost, with the
\* lexemes of outer put first in the outermost scope when there are two or
\* more.
RECURSIVE WrapAll(_, _, _)
WrapAll(ctx, outer, inner) ==
    IF ctx = <<>> THEN inner
    ELSE Wrap(Head(ctx), outer \o WrapAll(Tail(ctx), <<>>, inner))

MaxScopes == 2

Scopes == {"block", "function", "method", "init"}

Contexts == UNION {[1..n -> Scopes] : n \in 0..MaxScopes}

\* var x = x; in the scopes of ctx, where x is declared before at top level,
\* in the outermost scope of two or more, or not at all.
OwnInitializerSource(c) ==
    (IF c.outer = "top" THEN <<"var", "x", "=", "1", ";">> ELSE <<>>)
        \o WrapAll(c.ctx,
                   IF c.outer = "enclosing" THEN <<"var", "x", "=", "1", ";">> ELSE <<>>,
                   <<"var", "x", "=", "x", ";">>)

OwnInitializerCases ==
    {c \in [ctx : Contexts, outer : {"none", "top", "enclosing"}] :
        c.outer = "enclosing" => Len(c.ctx) >= 2}

\* The scopes of ctx from the one after the first i on, around a return with
\* or without value; a return 2; follows the scope nested in the first
\* c.after scopes when c.after is not -1.
RECURSIVE ReturnLevel(_, _)
ReturnLevel(c, i) ==
    (IF i < Len(c.ctx) THEN Wrap(c.ctx[i + 1], ReturnLevel(c, i + 1))
     ELSE IF c.value THEN <<"return", "1", ";">> ELSE <<"return", ";">>)
        \o (IF c.after = i THEN <<"return", "2", ";">> ELSE <<>>)

ReturnSource(c) == ReturnLevel(c, 0)

ReturnCases ==
    {c \in [ctx : Contexts, value : BOOLEAN, after : -1..(MaxScopes - 1)] :
        c.after < Len(c.ctx)}

\* super.m; outside of any class, in a method of a class without superclass
\* or in a method of a class with one, directly or in a nested function.
SuperSource(c) ==
    LET use == <<"super", ".", "m", ";">>
        inner == IF c.nested THEN Wrap("function", use) ELSE use
    IN CASE c.place = "outside" -> inner
         [] c.place = "class" -> <<"class", "A", "{", "m", "(", ")", "{">> \o inner \o <<"}", "}">>
         [] c.place = "subclass" ->
               <<"class", "B", "{", "}", "class", "A", "<", "B", "{", "m", "(", ")", "{">>
                   \o inner \o <<"}", "}">>

SuperCases == [place : {"outside", "class", "subclass"}, nested : BOOLEAN]

\* A declaration of the name a: a variable, a function or a class.
Declaration(kind) ==
    CASE kind = "var" -> <<"var", "a", ";">>
      [] kind = "fun" -> <<"fun", "a", "(", ")", "{", "}">>
      [] kind = "class" -> <<"class", "a", "{", "}">>

\* Two declarations of a in the scopes of ctx: the second one in the scope of
\* the first or in a block nested there.  A first declaration of kind param
\* is the parameter of a function f, whose body is that scope.
TwiceSource(c) ==
    LET second == IF c.second = "param" THEN <<>>
                  ELSE IF c.nested THEN Wrap("block", Declaration(c.second))
                  ELSE Declaration(c.second)
    IN WrapAll(c.ctx, <<>>,
               IF c.first = "param"
               THEN <<"fun", "f", "(", "a">>
                        \o (IF c.second = "param" THEN <<",", "a">> ELSE <<>>)
                        \o <<")", "{">> \o second \o <<"}">>
               ELSE Declaration(c.first) \o second)

TwiceCases ==
    {c \in [ctx : Contexts, first : {"var", "fun", "class", "param"},
            second : {"var", "fun", "class", "param"}, nested : BOOLEAN] :
        c.second = "param" => c.first = "param" /\ ~c.nested}

\* A call of clock with an argument, a call of it with none, and a call of
\* it as the left operand of a numeric operator.
NumericOperators == {"-", "*", "/", "<", "<=", ">", ">="}

ClockSource(c) ==
    CASE c.use = "arity" -> <<"print", "clock", "(", "1", ")", ";">>
      [] c.use = "call" -> <<"clock", "(", ")", ";", "print", "clock", ";">>
      [] OTHER -> <<"print", "clock", "(", ")", c.use, "1", ";">>

ClockCases == [use : {"arity", "call"} \cup NumericOperators]

\* A statement nested in blocks, in loops that run until it and in ifs.
MaxUnwind == 2

Nest(kind, inner) ==
    CASE kind = "block" -> <<"{">> \o inner \o <<"}">>
      [] kind = "while" -> <<"while", "(", "true", ")", "{">> \o inner \o <<"}">>
      [] kind = "if" -> <<"if", "(", "true", ")", "{">> \o inner \o <<"}">>

RECURSIVE NestAll(_, _)
NestAll(nest, inner) ==
    IF nest = <<>> THEN inner ELSE Nest(Head(nest), NestAll(Tail(nest), inner))

\* The statement that unwinds: a return with or without value, or a print of
\* the negation of a string, which raises a runtime error.
Unwinder(kind) ==
    CASE kind = "value" -> <<"return", "7", ";">>
      [] kind = "bare" -> <<"return", ";">>
      [] kind = "error" -> <<"print", "-", "\"s\"", ";">>

\* The function g unwinds from the nesting of c.nest, between two prints; it
\* is called at top level, or in a function f that prints after the call and
\* is called at top level, and top level prints after its call.
UnwindSource(c) ==
    <<"fun", "g", "(", ")", "{", "print", "1", ";">>
        \o NestAll(c.nest, Unwinder(c.kind)) \o <<"print", "2", ";", "}">>
        \o (IF c.calls = 2
            THEN <<"fun", "f", "(", ")", "{", "print", "g", "(", ")", ";",
                   "print", "3", ";", "return", "8", ";", "}",
                   "print", "f", "(", ")", ";">>
            ELSE <<"print", "g", "(", ")", ";">>)
        \o <<"print", "4", ";">>

UnwindCases ==
    [nest : UNION {[1..n -> {"block", "while", "if"}] : n \in 0..MaxUnwind},
     kind : {"value", "bare", "error"}, calls : 1..2]

\* The class A: without init, with its own init, with an init that returns
\* before its end, or with the init of its superclass B.
InitForms == {"none", "own", "bare", "inherited"}

ClassWithInit(init) ==
    CASE init = "none" -> <<"class", "A", "{", "}">>
      [] init = "own" ->
            <<"class", "A", "{", "init", "(", "a", ")", "{", "this", ".", "x", "=", "a", ";",
              "}", "}">>
      [] init = "bare" ->
            <<"class", "A", "{", "init", "(", "a", ")", "{", "this", ".", "x", "=", "a", ";",
              "return", ";", "this", ".", "x", "=", "9", ";", "}", "}">>
      [] init = "inherited" ->
            <<"class", "B", "{", "init", "(", "a", ")", "{", "this", ".", "x", "=", "a", ";",
              "}", "}", "class", "A", "<", "B", "{", "}">>

\* Two instances of A are made and their fields read and set, init is called
\* on the first, and a field that was never set is read; or A is called with
\* one argument more than init has parameters.
InstanceSource(c) ==
    ClassWithInit(c.init)
        \o (IF ~c.arity
            THEN (IF c.init = "none" THEN <<"print", "A", "(", "1", ")", ";">>
                  ELSE <<"print", "A", "(", "1", ",", "2", ")", ";">>)
            ELSE IF c.init = "none"
            THEN <<"var", "o", "=", "A", "(", ")", ";", "print", "o", ";",
                   "o", ".", "x", "=", "1", ";",
                   "var", "p", "=", "A", "(", ")", ";",
                   "print", "o", ".", "x", ";", "print", "p", ".", "x", ";">>
            ELSE <<"var", "o", "=", "A", "(", "1", ")", ";",
                   "var", "p", "=", "A", "(", "2", ")", ";",
                   "print", "o", ";", "print", "o", ".", "x", ";", "print", "p", ".", "x", ";",
                   "print", "o", ".", "init", "(", "3", ")", ";",
                   "print", "o", ".", "x", ";", "print", "p", ".", "x", ";",
                   "print", "p", ".", "y", ";">>)

InstanceCases == [init : InitForms, arity : BOOLEAN]

\* The classes C, B < C and A < B, an instance o of A with the field x, and
\* one lookup of a property of o.
PropertyClasses ==
    <<"class", "C", "{",
          "m", "(", ")", "{", "return", "this", ".", "x", ";", "}",
          "k", "(", ")", "{", "return", "1", ";", "}", "}",
      "class", "B", "<", "C", "{",
          "m", "(", ")", "{", "return", "2", ";", "}",
          "n", "(", ")", "{", "return", "this", ".", "x", ";", "}", "}",
      "class", "A", "<", "B", "{",
          "n", "(", ")", "{", "return", "3", ";", "}",
          "own", "(", ")", "{", "return", "this", ".", "x", ";", "}", "}",
      "var", "o", "=", "A", "(", ")", ";", "o", ".", "x", "=", "5", ";">>

PropertyLookups ==
    {"field", "shadowed", "own", "overridden", "inherited", "grand", "bound", "missing"}

PropertyLookupLexemes(lookup) ==
    CASE lookup = "field" -> <<"print", "o", ".", "x", ";">>
      [] lookup = "shadowed" -> <<"o", ".", "n", "=", "7", ";", "print", "o", ".", "n", ";">>
      [] lookup = "own" -> <<"print", "o", ".", "own", "(", ")", ";">>
      [] lookup = "overridden" -> <<"print", "o", ".", "n", "(", ")", ";">>
      [] lookup = "inherited" -> <<"print", "o", ".", "m", "(", ")", ";">>
      [] lookup = "grand" -> <<"print", "o", ".", "k", "(", ")", ";">>
      [] lookup = "bound" ->
            <<"var", "g", "=", "o", ".", "own", ";", "var", "p", "=", "A", "(", ")", ";",
              "p", ".", "x", "=", "6", ";", "print", "g", "(", ")", ";">>
      [] lookup = "missing" -> <<"print", "o", ".", "z", ";">>

PropertySource(c) == PropertyClasses \o PropertyLookupLexemes(c.lookup)

PropertyCases == [lookup : PropertyLookups]

\* super.m() in the method n of A < B, nested in blocks and in functions
\* called where they are declared; n is called on the instance o of A, after
\* another instance of A is made.
MaxSuperNest == 2

SuperNest(kind, inner) ==
    CASE kind = "block" -> <<"{">> \o inner \o <<"}">>
      [] kind = "fun" -> <<"fun", "h", "(", ")", "{">> \o inner \o <<"}", "h", "(", ")", ";">>

RECURSIVE SuperNestAll(_, _)
SuperNestAll(nest, inner) ==
    IF nest = <<>> THEN inner ELSE SuperNest(Head(nest), SuperNestAll(Tail(nest), inner))

SuperThisSource(c) ==
    <<"class", "B", "{", "m", "(", ")", "{", "return", "this", ".", "x", ";", "}", "}",
      "class", "A", "<", "B", "{",
          "m", "(", ")", "{", "return", "0", ";", "}",
          "n", "(", ")", "{">>
        \o SuperNestAll(c.nest, <<"print", "super", ".", "m", "(", ")", ";">>)
        \o <<"}", "}",
             "var", "o", "=", "A", "(", ")", ";", "o", ".", "x", "=", "5", ";",
             "var", "p", "=", "A", "(", ")", ";", "p", ".", "x", "=", "6", ";",
             "o", ".", "n", "(", ")", ";">>

SuperThisCases == [nest : UNION {[1..n -> {"block", "fun"}] : n \in 0..MaxSuperNest}]

\* Classes, functions and blocks in one another, with the errors the
\* resolver reports in them: a class that inherits from itself, a value
\* returned by an initializer, super in a class without superclass, names
\* declared twice, a variable read in its own initializer, return and this
\* at top level.
BalanceSources ==
    <<<<"class", "A", "<", "A", "{", "m", "(", ")", "{", "return", ";", "}", "}">>,
      <<"class", "A", "{", "init", "(", ")", "{", "return", "1", ";", "}",
            "m", "(", ")", "{",
                "class", "B", "<", "A", "{", "n", "(", ")", "{",
                    "super", ".", "n", "(", ")", ";", "var", "a", ";", "var", "a", ";",
                "}", "}",
                "super", ".", "m", ";",
            "}", "}">>,
      <<"fun", "f", "(", ")", "{",
            "class", "A", "{", "m", "(", ")", "{", "return", "this", ";", "}", "}",
            "return", "A", ";", "}">>,
      <<"{", "var", "a", "=", "a", ";",
            "{", "fun", "g", "(", "a", ",", "a", ")", "{", "return", ";", "}", "}", "}">>,
      <<"if", "(", "true", ")", "{", "return", ";", "}",
        "else", "{", "while", "(", "false", ")", "{", "this", ";", "}", "}">>>>

BalanceCases == [k : DOMAIN BalanceSources]

\* The sources: given names the family of the source and the case in it.
Given ==
    {[family |-> "hops", c |-> c] : c \in HopCases}
        \cup {[family |-> "initializer", c |-> c] : c \in OwnInitializerCases}
        \cup {[family |-> "return", c |-> c] : c \in ReturnCases}
        \cup {[family |-> "super", c |-> c] : c \in SuperCases}
        \cup {[family |-> "twice", c |-> c] : c \in TwiceCases}
        \cup {[family |-> "clock", c |-> c] : c \in ClockCases}
        \cup {[family |-> "unwind", c |-> c] : c \in UnwindCases}
        \cup {[family |-> "instance", c |-> c] : c \in InstanceCases}
        \cup {[family |-> "property", c |-> c] : c \in PropertyCases}
        \cup {[family |-> "superthis", c |-> c] : c \in SuperThisCases}
        \cup {[family |-> "balance", c |-> c] : c \in BalanceCases}

SourceOf(g) ==
    CASE g.family = "hops" -> HopSource(g.c)
      [] g.family = "initializer" -> OwnInitializerSource(g.c)
      [] g.family = "return" -> ReturnSource(g.c)
      [] g.family = "super" -> SuperSource(g.c)
      [] g.family = "twice" -> TwiceSource(g.c)
      [] g.family = "clock" -> ClockSource(g.c)
      [] g.family = "unwind" -> UnwindSource(g.c)
      [] g.family = "instance" -> InstanceSource(g.c)
      [] g.family = "property" -> PropertySource(g.c)
      [] g.family = "superthis" -> SuperThisSource(g.c)
      [] g.family = "balance" -> BalanceSources[g.c.k]

ResolveInit ==
    /\ pc = "resolve"
    /\ given \in Given
    /\ LET parsed == Parse(NewParser(ScanTokens(SourceOf(given)), FALSE, <<>>)) IN
          /\ ~parsed.p.HadError
          /\ parser = parsed.p
          /\ statements = parsed.statements
    /\ before = parser
    /\ resolver = NewResolver(NewInterpreter.locals, FALSE, <<>>)
    /\ execution = NewExecution(NewInterpreter, FALSE, <<>>, <<>>)
    /\ todo = statements
    /\ scanner = <<>>
    /\ exprIn = NilNode /\ valueOut = NilValue
    /\ errorHandler = NewErrorHandler /\ stdout = <<>>
    /\ DriverIdle

\* One turn of the loop of ResolveStatements over the statements of the source.
ResolveStatement ==
    /\ pc = "resolve"
    /\ todo # <<>>
    /\ resolver' = resolveStatement(resolver, Head(todo))
    /\ todo' = Tail(todo)
    /\ UNCHANGED <<pc, execution, given, scanner, parserVars, evalVars, errorHandler, stdout,
                   driverVars>>

\* ResolveStatements returns: run() returns when an error was reported and
\* calls Interpret when none was.
ResolveReturn ==
    /\ pc = "resolve"
    /\ todo = <<>>
    /\ IF resolver.HadError
       THEN /\ pc' = "done"
            /\ UNCHANGED <<execution, todo>>
       ELSE /\ pc' = "interpret"
            /\ execution' = [execution EXCEPT !.locals = resolver.locals,
                                              !.stderr = resolver.stderr]
            /\ todo' = statements
    /\ UNCHANGED <<resolver, given, scanner, parserVars, evalVars, errorHandler, stdout,
                   driverVars>>

\* One turn of the loop of Interpret over the statements.
InterpretStatement ==
    /\ pc = "interpret"
    /\ todo # <<>>
    /\ ~execution.panicking
    /\ execution' = execute(execution, Head(todo))
    /\ todo' = Tail(todo)
    /\ UNCHANGED <<pc, resolver, given, scanner, parserVars, evalVars, errorHandler, stdout,
                   driverVars>>

\* Interpret returns, at the end of the statements or at a runtime error.
InterpretReturn ==
    /\ pc = "interpret"
    /\ todo = <<>> \/ execution.panicking
    /\ execution' = InterpretRecover(execution)
    /\ pc' = "done"
    /\ UNCHANGED <<todo, resolver, given, scanner, parserVars, evalVars, errorHandler, stdout,
                   driverVars>>

ResolveNext == ResolveStatement \/ ResolveReturn \/ InterpretStatement \/ InterpretReturn

SpecResolve == ResolveInit /\ [][ResolveNext]_vars

(***************************************************************************)
(* Properties of the resolver and of the variables at run time, checked    *)
(* under SpecResolve.                                                      *)
(***************************************************************************)
\* The expression nodes of an expression, of a statement and of statements,
\* each before the ones it holds.
RECURSIVE exprNodes(_), exprListNodes(_), stmtNodes(_), stmtListNodes(_)
exprNodes(e) ==
    <<e>> \o
    CASE e.type = "AssignExpr" -> exprNodes(e.value)
      [] e.type \in {"BinaryExpr", "LogicalExpr"} -> exprNodes(e.left) \o exprNodes(e.right)
      [] e.type = "CallExpr" -> exprNodes(e.callee) \o exprListNodes(e.args)
      [] e.type = "GetExpr" -> exprNodes(e.object)
      [] e.type = "GroupingExpr" -> exprNodes(e.expression)
      [] e.type = "SetExpr" -> exprNodes(e.object) \o exprNodes(e.value)
      [] e.type = "UnaryExpr" -> exprNodes(e.right)
      [] OTHER -> <<>>

exprListNodes(es) ==
    IF es = <<>> THEN <<>>
    ELSE IF Len(es) = 1 THEN exprNodes(es[1])
    ELSE LET half == Len(es) \div 2 IN
         exprListNodes(SubSeq(es, 1, half)) \o exprListNodes(SubSeq(es, half + 1, Len(es)))

stmtNodes(stmt) ==
    CASE stmt.type = "BlockStmt" -> stmtListNodes(stmt.statements)
      [] stmt.type = "ClassStmt" ->
            (IF stmt.superclass.id # 0 THEN exprNodes(stmt.superclass) ELSE <<>>)
                \o stmtListNodes(stmt.methods)
      [] stmt.type \in {"ExprStmt", "PrintStmt"} -> exprNodes(stmt.expr)
      [] stmt.type = "FunctionStmt" -> stmtListNodes(stmt.body)
      [] stmt.type = "IfStmt" ->
            exprNodes(stmt.condition) \o stmtNodes(stmt.thenBranch)
                \o (IF stmt.elseBranch # NilNode THEN stmtNodes(stmt.elseBranch) ELSE <<>>)
      [] stmt.type = "ReturnStmt" ->
            IF stmt.value # NilNode THEN exprNodes(stmt.value) ELSE <<>>
      [] stmt.type = "VarStmt" ->
            IF stmt.initializer # NilNode THEN exprNodes(stmt.initializer) ELSE <<>>
      [] stmt.type = "WhileStmt" -> exprNodes(stmt.condition) \o stmtNodes(stmt.body)
      [] OTHER -> <<>>

stmtListNodes(stmts) ==
    IF stmts = <<>> THEN <<>> ELSE stmtNodes(Head(stmts)) \o stmtListNodes(Tail(stmts))

\* The reads and the assignments of the variable named name in the source.
UsesOf(name) ==
    {n \in {stmtListNodes(statements)[i] : i \in 1..Len(stmtListNodes(statements))} :
        n.type \in {"VariableExpr", "AssignExpr"} /\ n.name.lexeme = name}

\* The depth of the declaration a use at depth c.u refers to: the deepest of
\* D that is not deeper than the use, -1 when there is none.
Declaring(c) ==
    LET seen == {d \in c.D : d <= c.u} IN
    IF seen = {} THEN -1 ELSE CHOOSE m \in seen : \A d \in seen : d <= m

\* The scopes between the use and that declaration.
Hops(c) == c.u - Declaring(c) + (IF c.form = "direct" THEN 0 ELSE 1)

\* The values of the environment made for the scope at depth d: the blocks
\* are entered in the order of their depth, before any function is called.
ValuesAt(d) == IF d = 0 THEN execution.globals ELSE execution.heap[d].values

\* What the use of case c leaves when the source has run.
HopOutcome(c) ==
    LET d == Declaring(c)
        twice == c.form = "late"
    IN IF d = -1
       THEN /\ execution.HadRuntimeError
            /\ execution.stdout = <<>>
            /\ execution.stderr = <<RuntimeErrorMsg(1, "Undefined variable 'a'.")>>
       ELSE /\ ~execution.HadRuntimeError
            /\ execution.stderr = <<>>
            /\ execution.stdout =
                  (IF c.kind = "write" THEN <<>>
                   ELSE IF twice THEN <<ToString(d) \o "\n", ToString(d) \o "\n">>
                   ELSE <<ToString(d) \o "\n">>)
            /\ ValuesAt(d)["a"] = NumberValue(IF c.kind = "write" THEN 9 ELSE d)
            /\ \A o \in c.D \ {d} : ValuesAt(o)["a"] = NumberValue(o)
            /\ twice => ValuesAt(c.u)["a"] = NumberValue(7)

\* C11: scope hop correctness.  In a source of nested blocks that declare a
\* at the depths of D and use it at depth u, the resolver records for the
\* use the number of scopes between it and the deepest declaration not
\* deeper than the use, and nothing when that declaration is at top level or
\* missing; when the source has run, the use has read or written the binding
\* of the environment made for the declaring block (or of the globals), and
\* every other binding of a keeps the value it was declared with, also one
\* declared in a nearer environment after the use was resolved.
ScopeHops ==
    given.family = "hops" =>
        LET c == given.c IN
            /\ pc # "resolve" =>
                  \A n \in UsesOf("a") :
                      IF Declaring(c) >= 1
                      THEN n.id \in DOMAIN resolver.locals /\ resolver.locals[n.id] = Hops(c)
                      ELSE n.id \notin DOMAIN resolver.locals
            /\ pc = "done" => HopOutcome(c)

\* A function that assigns a was called before and after a declaration of a
\* in its own block, one block below the declaration of a it was resolved to,
\* with a declared at top level as well: the assignment went two
\* environments out both times.
ScopeHopsWitness ==
    /\ pc = "done"
    /\ given = [family |-> "hops",
                c |-> [D |-> {0, 1}, u |-> 2, kind |-> "write", form |-> "late"]]
    /\ \E n \in UsesOf("a") : n.id \in DOMAIN resolver.locals /\ resolver.locals[n.id] = 2
    /\ execution.heap[1].values["a"] = NumberValue(9)
    /\ execution.heap[2].values["a"] = NumberValue(7)
    /\ execution.globals["a"] = NumberValue(0)

\* C12: a variable read in its own initializer.  var x = x; in a block, a
\* function body or a method body, however nested, is reported by the
\* resolver with "Can't read local variable in its own initializer.", also
\* when x is declared at top level or in an enclosing scope, and nothing is
\* interpreted; at top level the resolver reports nothing, and the run ends
\* with the undefined-variable runtime error when x was not declared before
\* and without any error when it was.
OwnInitializer ==
    given.family = "initializer" /\ pc # "resolve" =>
        LET c == given.c IN
            IF Len(c.ctx) >= 1
            THEN /\ resolver.HadError
                 /\ resolver.stderr =
                       <<StaticErrorMsg(1, "x",
                             "Can't read local variable in its own initializer.")>>
                 /\ pc = "done"
                 /\ execution = NewExecution(NewInterpreter, FALSE, <<>>, <<>>)
            ELSE /\ ~resolver.HadError
                 /\ resolver.stderr = <<>>
                 /\ pc = "done" =>
                       IF c.outer = "top"
                       THEN /\ ~execution.HadRuntimeError
                            /\ execution.stderr = <<>>
                            /\ execution.globals["x"] = NumberValue(1)
                       ELSE /\ execution.HadRuntimeError
                            /\ execution.stderr =
                                  <<RuntimeErrorMsg(1, "Undefined variable 'x'.")>>

\* var x = x; in the body of a method of a class declared in a block that
\* declares x before was reported and not run.
OwnInitializerWitness ==
    /\ pc = "done"
    /\ given = [family |-> "initializer",
                c |-> [ctx |-> <<"block", "method">>, outer |-> "enclosing"]]
    /\ resolver.HadError
    /\ Len(resolver.stderr) = 1
    /\ execution.stdout = <<>>

\* The kind of the innermost function around what stands in the first j
\* scopes of ctx: none when they are all blocks.
FunctionKind(ctx, j) ==
    LET fs == {i \in 1..j : ctx[i] # "block"} IN
    IF fs = {} THEN "none" ELSE ctx[CHOOSE m \in fs : \A i \in fs : i <= m]

\* The diagnostics of a return in a function of that kind.
ReturnErrors(kind, hasValue) ==
    IF kind = "none"
    THEN <<StaticErrorMsg(1, "return", "Can't return from top level code.")>>
    ELSE IF kind = "init" /\ hasValue
    THEN <<StaticErrorMsg(1, "return", "Can't return a vlaue from an intializer.")>>
    ELSE <<>>

\* C13: return placement.  A return is reported exactly when no function
\* body is around it, or when it carries a value and the innermost function
\* around it is a method named init: a bare return in init and a return with
\* a value in a function nested in init are not.  The kind of the function
\* around is restored at the end of a function body, so a return that
\* follows a nested function or class is judged by the function around it,
\* at top level as anywhere else.
ReturnPlacement ==
    given.family = "return" /\ pc # "resolve" =>
        LET c == given.c IN
            /\ resolver.stderr =
                  ReturnErrors(FunctionKind(c.ctx, Len(c.ctx)), c.value)
                      \o (IF c.after = -1 THEN <<>>
                          ELSE ReturnErrors(FunctionKind(c.ctx, c.after), TRUE))
            /\ resolver.HadError = (resolver.stderr # <<>>)
            /\ resolver.currentFunctionType = "ftNone"

\* In an initializer, a return with a value in a nested function was not
\* reported and the return with a value after that function was.
ReturnPlacementWitness ==
    /\ pc = "done"
    /\ given = [family |-> "return",
                c |-> [ctx |-> <<"init", "function">>, value |-> TRUE, after |-> 1]]
    /\ resolver.stderr =
          <<StaticErrorMsg(1, "return", "Can't return a vlaue from an intializer.")>>

\* The super expressions of the source.
SuperExprs ==
    {n \in {stmtListNodes(statements)[i] : i \in 1..Len(stmtListNodes(statements))} :
        n.type = "SuperExpr"}

SuperOutsideMsg == StaticErrorMsg(1, "super", "Can't use 'super' outside of a class.")

SuperNoSuperclassMsg ==
    StaticErrorMsg(1, "super", "Can't user 'super' in a class with no superclass.")

\* C14: the diagnostics of super.  For a super expression outside of any
\* class the resolver writes the "outside of a class" diagnostic and no
\* other, in a class without superclass the "no superclass" diagnostic and
\* no other, and in a class with a superclass none, the keyword being
\* resolved as a local: its distance is recorded in the side table.
SuperDiagnostics ==
    given.family = "super" /\ pc # "resolve" =>
        LET c == given.c IN
            CASE c.place = "outside" ->
                    /\ resolver.stderr = <<SuperOutsideMsg>>
                    /\ \A n \in SuperExprs : n.id \notin DOMAIN resolver.locals
              [] c.place = "class" ->
                    /\ resolver.stderr = <<SuperNoSuperclassMsg>>
                    /\ \A n \in SuperExprs : n.id \notin DOMAIN resolver.locals
              [] c.place = "subclass" ->
                    /\ resolver.stderr = <<>>
                    /\ \A n \in SuperExprs :
                          /\ n.id \in DOMAIN resolver.locals
                          /\ resolver.locals[n.id] = IF c.nested THEN 3 ELSE 2

\* super.m; at top level was resolved: both diagnostics were written for
\* the one expression.
SuperOutsideReportsBoth ==
    /\ pc = "done"
    /\ given = [family |-> "super", c |-> [place |-> "outside", nested |-> FALSE]]
    /\ Cardinality(SuperExprs) = 1
    /\ resolver.stderr = <<SuperOutsideMsg, SuperNoSuperclassMsg>>

AlreadyDeclaredMsg ==
    StaticErrorMsg(1, "a", "Already a variable with this name is this scope.")

\* C15: duplicate declarations.  Of two declarations of one name (variables,
\* functions, classes, parameters), the second is reported with "Already a
\* variable with this name" exactly when both are in the same local scope: a
\* local that repeats a parameter of its function and two parameters of one
\* name are, a declaration in a nested block that shadows the outer one and
\* a second declaration at top level are not.
DuplicateDeclarations ==
    given.family = "twice" /\ pc # "resolve" =>
        LET c == given.c IN
            /\ resolver.stderr =
                  (IF ~c.nested /\ (c.first = "param" \/ Len(c.ctx) >= 1)
                   THEN <<AlreadyDeclaredMsg>> ELSE <<>>)
            /\ resolver.HadError = (resolver.stderr # <<>>)

\* A function whose body declares a variable named as its parameter was
\* resolved and reported; so was one with two parameters of one name.
DuplicateDeclarationsWitness ==
    /\ pc = "done"
    /\ given.family = "twice"
    /\ given.c.ctx = <<>> /\ given.c.first = "param" /\ ~given.c.nested
    /\ given.c.second \in {"var", "param"}
    /\ resolver.stderr = <<AlreadyDeclaredMsg>>

(***************************************************************************)
(* Properties of the ids the parser gives to expressions, checked under    *)
(* SpecParse on the statements parsed so far.                              *)
(***************************************************************************)
\* The latest declaration() was called on a class declaration with a
\* superclass clause.
ClassWithSuperclassAt ==
    /\ before.current + 3 <= Len(before.tokens)
    /\ before.tokens[before.current + 1].tokenType = "Class"
    /\ before.tokens[before.current + 3].tokenType = "Less"

\* C16: within one Parse call the expression nodes of the statements
\* produced carry pairwise different ids, every one of them at least 1 and
\* none beyond the parser's counter, the `true` a `for` without condition
\* gets and the superclass Variable of a class included; the superclass of
\* a class statement has id 0 exactly when the class has no superclass
\* clause.
UniqueExprIds ==
    LET ns == stmtListNodes(statements) IN
        /\ \A i \in 1..Len(ns) : ns[i].id >= 1 /\ ns[i].id <= parser.nextExprId
        /\ \A i, j \in 1..Len(ns) : i # j => ns[i].id # ns[j].id
        /\ Len(statements) > 0 /\ Last.type = "ClassStmt" =>
              (Last.superclass.id = 0 <=> ~ClassWithSuperclassAt)

\* A block was parsed that holds a `for` without condition, whose `true` got
\* an id after the increment's, and a class whose superclass got the next.
UniqueExprIdsWitness ==
    /\ pc = "parsed"
    /\ \E i \in 1..Len(statements) :
          /\ statements[i].type = "BlockStmt"
          /\ Len(statements[i].statements) = 2
          /\ LET loop == statements[i].statements[1]
                 class == statements[i].statements[2]
             IN /\ loop.type = "WhileStmt"
                /\ loop.condition.type = "LiteralExpr"
                /\ loop.condition.value = BoolValue(TRUE)
                /\ loop.condition.id > loop.body.statements[2].expr.id
                /\ class.type = "ClassStmt"
                /\ class.superclass.id = loop.condition.id + 1

(***************************************************************************)
(* Properties of the cap on parameters and arguments, checked under        *)
(* SpecParse.                                                              *)
(***************************************************************************)
\* The statement a function, method or call of n parameters or arguments
\* parses to, the next expression id being id + 1.
CapFunctionStmt(name, n) ==
    [type |-> "FunctionStmt", name |-> scanToken(name, 1),
     params |-> [i \in 1..n |-> scanToken("a", 1)], body |-> <<>>]

CapStatement(kind, n, id) ==
    CASE kind = "function" -> CapFunctionStmt("f", n)
      [] kind = "method" ->
            [type |-> "ClassStmt", name |-> scanToken("A", 1), superclass |-> NoSuperclass,
             methods |-> <<CapFunctionStmt("m", n)>>]
      [] kind = "call" ->
            [type |-> "PrintStmt",
             expr |-> [type |-> "CallExpr", id |-> id + n + 2,
                       callee |-> [type |-> "VariableExpr", id |-> id + 1,
                                   name |-> scanToken("f", 1)],
                       paren |-> scanToken(")", 1),
                       args |-> [i \in 1..n |-> LiteralExpr(id + 1 + i, NumberValue(1))]]]

\* The diagnostics of a function, method or call of n parameters or
\* arguments: one for each beyond the cap, at that parameter or argument.
CapDiagnostics(kind, n) ==
    [i \in 1..(n - CapOf(kind)) |->
        IF kind = "call"
        THEN StaticErrorMsg(1, "1", "Can't have more than 255 arguments.")
        ELSE StaticErrorMsg(1, "a", "Can't have more than 255 parameters.")]

\* C17: a function or method of exactly 255 parameters and a call of
\* exactly 255 arguments are parsed without diagnostic; with more, the
\* "more than 255" diagnostic is written and the error flag set, without
\* unwinding or discarding a token: the statement holds every parameter or
\* argument, the parser stands after the declaration or statement, and the
\* rest of the source parses as usual.
ParameterCap ==
    \A kind \in CapKinds : \A n \in CapCounts(kind) :
        DeclaredAt(CapFragment(kind, n)) =>
            /\ parser.stderr = before.stderr \o CapDiagnostics(kind, n)
            /\ parser.HadError = (before.HadError \/ n > CapOf(kind))
            /\ parser.syncs = before.syncs
            /\ ~parser.panicking
            /\ parser.current = before.current + Len(CapFragment(kind, n))
            /\ Last = CapStatement(kind, n, before.nextExprId)
            /\ ParsesRestNormally(parser)

\* A function of 256 parameters was reported and parsed whole, and so was
\* the statement after it.
ParameterCapWitness ==
    /\ pc = "parsed"
    /\ Len(statements) = 2
    /\ statements[1].type = "FunctionStmt"
    /\ Len(statements[1].params) = MaxParams + 1
    /\ statements[2].type = "PrintStmt"
    /\ parser.HadError
    /\ parser.stderr = <<StaticErrorMsg(1, "a", "Can't have more than 255 parameters.")>>

(***************************************************************************)
(* The scanner, byte by byte (src/unnamed/part_010, lines 81-306).  The    *)
(* source is a sequence of one-character strings; s.source[s.current + 1]  *)
(* is the Go source[current].  The scanner record carries the error        *)
(* handler's flag and what was printed.                                    *)
(***************************************************************************)
\* The byte 0 that peek and peekNext return at the end of the source.
NUL == ""

IsDigit(c) == c \in DOMAIN NumberLexemes

IsLetter(c) ==
    c \in {"a", "b", "c", "d", "e", "f", "g", "h", "i", "j", "k", "l", "m",
           "n", "o", "p", "q", "r", "s", "t", "u", "v", "w", "x", "y", "z",
           "A", "B", "C", "D", "E", "F", "G", "H", "I", "J", "K", "L", "M",
           "N", "O", "P", "Q", "R", "S", "T", "U", "V", "W", "X", "Y", "Z"}

\* The string of the characters.
RECURSIVE Join(_)
Join(chars) == IF chars = <<>> THEN "" ELSE Head(chars) \o Join(Tail(chars))

\* The number a sequence of digits denotes.
RECURSIVE DigitsValue(_)
DigitsValue(digits) ==
    IF digits = <<>> THEN 0
    ELSE 10 * DigitsValue(SubSeq(digits, 1, Len(digits) - 1))
            + NumberLexemes[digits[Len(digits)]]

\* The digits without the zeros at their end.
RECURSIVE StripZeros(_)
StripZeros(digits) ==
    IF digits = <<>> \/ digits[Len(digits)] # "0" THEN digits
    ELSE StripZeros(SubSeq(digits, 1, Len(digits) - 1))

\* strconv.ParseFloat on digits with an optional fraction: the integer when
\* the fraction is zero, else the integer part and the digits of the
\* fraction.  A literal of more than 308 characters may be out of float64's
\* range, which ParseFloat returns as an error.
ParseFloat(chars) ==
    LET dots == {i \in 1..Len(chars) : chars[i] = "."}
        dot == IF dots = {} THEN Len(chars) + 1 ELSE CHOOSE i \in dots : TRUE
        whole == DigitsValue(SubSeq(chars, 1, dot - 1))
        fraction == StripZeros(SubSeq(chars, dot + 1, Len(chars)))
    IN [ok |-> Len(chars) <= 308,
        value |-> IF fraction = <<>> THEN whole
                  ELSE [whole |-> whole, fraction |-> Join(fraction)]]

NewScanner(source, h, written) ==
    [source |-> source, tokens |-> <<>>, start |-> 0, current |-> 0, line |-> 1,
     errorHandler |-> h, stdout |-> written]

scannerIsAtEnd(s) == s.current >= Len(s.source)

\* advance: the byte taken is s.source[s.current] of the result.
scannerAdvance(s) == [s EXCEPT !.current = @ + 1]

scannerMatch(s, expected) ==
    IF scannerIsAtEnd(s) THEN [ok |-> FALSE, s |-> s]
    ELSE IF s.source[s.current + 1] # expected THEN [ok |-> FALSE, s |-> s]
    ELSE [ok |-> TRUE, s |-> [s EXCEPT !.current = @ + 1]]

scannerPeek(s) == IF scannerIsAtEnd(s) THEN NUL ELSE s.source[s.current + 1]

peekNext(s) == IF s.current + 1 >= Len(s.source) THEN NUL ELSE s.source[s.current + 2]

\* source[start:current]
scannerText(s) == Join(SubSeq(s.source, s.start + 1, s.current))

addGenericToken(s, tokenType, literal) ==
    [s EXCEPT !.tokens = Append(@, Token(tokenType, scannerText(s), literal, s.line))]

addToken(s, t) == addGenericToken(s, t, NilValue)

\* The loop of addStringToken: up to the closing quote or the end.
RECURSIVE stringLoop(_)
stringLoop(s) ==
    IF scannerPeek(s) # "\"" /\ ~scannerIsAtEnd(s)
    THEN stringLoop(scannerAdvance(IF scannerPeek(s) = "\n"
                                   THEN [s EXCEPT !.line = @ + 1] ELSE s))
    ELSE s

\* An addStringToken that makes a token of a string the source ends in.
addStringTokenAtEnd(s) ==
    LET b == stringLoop(s) IN
    addGenericToken(b, "String", StringValue(Join(SubSeq(b.source, b.start + 2, b.current))))

addStringToken(s) ==
    LET b == stringLoop(s)
        c == scannerAdvance(b)
    IN IF scannerIsAtEnd(b) THEN report(b, b.line, "", "Unterminated string.")
       ELSE addGenericToken(c, "String",
                StringValue(Join(SubSeq(c.source, c.start + 2, c.current - 1))))

\* The digit loops of addNumberToken.
RECURSIVE digitLoop(_)
digitLoop(s) == IF IsDigit(scannerPeek(s)) THEN digitLoop(scannerAdvance(s)) ELSE s

\* addNumberToken, after the fraction, if any.
numberToken(f) ==
    LET parsed == ParseFloat(SubSeq(f.source, f.start + 1, f.current)) IN
    IF ~parsed.ok THEN report(f, f.line, "", "Invalid number.")
    ELSE addGenericToken(f, "Number", NumberValue(parsed.value))

\* An addNumberToken that takes a "." after the digits whatever follows it.
addNumberTokenAnyDot(s) ==
    LET d == digitLoop(s) IN
    numberToken(IF scannerPeek(d) = "." THEN digitLoop(scannerAdvance(d)) ELSE d)

addNumberToken(s) ==
    LET d == digitLoop(s) IN
    numberToken(IF scannerPeek(d) = "." /\ IsDigit(peekNext(d))
                THEN digitLoop(scannerAdvance(d)) ELSE d)

\* The loop of addIdentifierToken.
RECURSIVE identifierLoop(_)
identifierLoop(s) ==
    IF IsDigit(scannerPeek(s)) \/ IsLetter(scannerPeek(s)) \/ scannerPeek(s) = "_"
    THEN identifierLoop(scannerAdvance(s)) ELSE s

addIdentifierToken(s) ==
    LET i == identifierLoop(s)
        text == scannerText(i)
    IN addGenericToken(i, IF text \in DOMAIN Keywords THEN Keywords[text] ELSE "Identifier",
                       StringValue(text))

\* The loop of a comment: up to the end of the line.
RECURSIVE commentLoop(_)
commentLoop(s) ==
    IF scannerPeek(s) # "\n" /\ ~scannerIsAtEnd(s) THEN commentLoop(scannerAdvance(s)) ELSE s

\* scanToken of the scanner: c is the byte advance() returns.
scannerScanToken(s) ==
    LET a == scannerAdvance(s)
        c == a.source[a.current]
        eq == scannerMatch(a, "=")
        slash == scannerMatch(a, "/")
    IN CASE c \in {" ", "\r", "\t"} -> a
         [] c \in {"(", ")", "{", "}", ",", ".", "-", "+", ";", "*"} ->
                addToken(a, Punctuation[c])
         [] c \in {"!", "=", "<", ">"} ->
                addToken(eq.s, Punctuation[IF eq.ok THEN c \o "=" ELSE c])
         [] c = "/" -> IF slash.ok THEN commentLoop(slash.s) ELSE addToken(a, "Slash")
         [] c = "\n" -> [a EXCEPT !.line = @ + 1]
         [] c = "\"" -> addStringToken(a)
         [] OTHER ->
                IF IsDigit(c) THEN addNumberToken(a)
                ELSE IF IsLetter(c) \/ c = "_" THEN addIdentifierToken(a)
                ELSE report(a, a.line, "", "Unexpected character.")

\* One turn of the loop of ScanTokens.
scannerTurn(s) == scannerScanToken([s EXCEPT !.start = s.current])

\* The end of ScanTokens: the eof token.
scannerEnd(s) ==
    [s EXCEPT !.tokens = Append(@, Token("EndOfFile", "", NilValue, s.line))]

\* ScanTokens of the scanner: the scanner when it returns.
RECURSIVE scannerScanTokens(_)
scannerScanTokens(s) ==
    IF ~scannerIsAtEnd(s) THEN scannerScanTokens(scannerTurn(s)) ELSE scannerEnd(s)

(***************************************************************************)
(* The scanner run one scanToken() at a time, as ScanTokens does, on every *)
(* source of at most MaxChars of the characters below.                     *)
(***************************************************************************)
MaxChars == 4

ScanChars == {"1", ".", "a", "\"", "\n", ";", "@"}

ScanSources == UNION {[1..n -> ScanChars] : n \in 0..MaxChars}

ScanInit ==
    /\ pc = "scan"
    /\ \E source \in ScanSources : scanner = NewScanner(source, NewErrorHandler, <<>>)
    /\ resolver = <<>> /\ execution = <<>> /\ todo = <<>> /\ given = <<>>
    /\ parser = <<>> /\ statements = <<>> /\ before = <<>>
    /\ exprIn = NilNode /\ valueOut = NilValue
    /\ errorHandler = NewErrorHandler /\ stdout = <<>>
    /\ DriverIdle

ScanToken ==
    /\ pc = "scan"
    /\ ~scannerIsAtEnd(scanner)
    /\ scanner' = scannerTurn(scanner)
    /\ UNCHANGED <<pc, parserVars, evalVars, errorHandler, stdout, driverVars, resolveVars>>

ScanReturn ==
    /\ pc = "scan"
    /\ scannerIsAtEnd(scanner)
    /\ scanner' = scannerEnd(scanner)
    /\ pc' = "scanned"
    /\ UNCHANGED <<parserVars, evalVars, errorHandler, stdout, driverVars, resolveVars>>

ScanNext == ScanToken \/ ScanReturn

SpecScan == ScanInit /\ [][ScanNext]_vars

(***************************************************************************)
(* Properties of the scanner, checked under SpecScan.                      *)
(***************************************************************************)
\* The last of the digits that stand in a row from position i on; i - 1
\* when there is none.
DigitsEnd(source, i) ==
    CHOOSE k \in (i - 1)..Len(source) :
        /\ \A j \in i..k : IsDigit(source[j])
        /\ k = Len(source) \/ ~IsDigit(source[k + 1])

\* The last character of the number literal that starts at position i: the
\* "." after the digits and the digits after it belong to it when there is
\* at least one.
NumberEnd(source, i) ==
    LET k == DigitsEnd(source, i) IN
    IF k + 2 <= Len(source) /\ source[k + 1] = "." /\ IsDigit(source[k + 2])
    THEN DigitsEnd(source, k + 2) ELSE k

\* C18: a scanToken() that starts at a digit adds one number token, whose
\* lexeme is the digits and, when a "." and at least one digit follow them,
\* that "." and the digits after it, and stops right after that lexeme: a
\* "." that no digit follows is not taken; and a scanToken() that starts at
\* a "." adds a "." token of its own.
NumberScanning ==
    [][pc = "scan" /\ ~scannerIsAtEnd(scanner) =>
        LET source == scanner.source
            at == scanner.current + 1
            end == NumberEnd(source, at)
        IN /\ IsDigit(source[at]) =>
                /\ scanner'.current = end
                /\ scanner'.tokens =
                      Append(scanner.tokens,
                             Token("Number", Join(SubSeq(source, at, end)),
                                   NumberValue(ParseFloat(SubSeq(source, at, end)).value),
                                   scanner.line))
                /\ scanner'.stdout = scanner.stdout
           /\ source[at] = "." =>
                /\ scanner'.current = at
                /\ scanner'.tokens =
                      Append(scanner.tokens, Token("Dot", ".", NilValue, scanner.line))]_vars

\* "1.1." was scanned to the number 1.1, a "." and the eof token.
NumberScanningWitness ==
    /\ pc = "scanned"
    /\ scanner.source = <<"1", ".", "1", ".">>
    /\ scanner.tokens =
          <<Token("Number", "1.1", NumberValue([whole |-> 1, fraction |-> "1"]), 1),
            Token("Dot", ".", NilValue, 1), Token("EndOfFile", "", NilValue, 1)>>

\* The positions of the character c in the source.
Positions(source, c) == {i \in 1..Len(source) : source[i] = c}

\* The source ends inside a string: its quotes, none of which stands in a
\* comment in the sources here, are odd in number, and the last one opens
\* the string.
Unterminated(source) == Cardinality(Positions(source, "\"")) % 2 = 1

Opening(source) ==
    CHOOSE i \in Positions(source, "\"") : \A j \in Positions(source, "\"") : j <= i

\* C19: when the source ends inside a string, ScanTokens returns the tokens
\* of what stands before the string, with no string token for it, then the
\* eof token, whose line is that of the end of the source, the newlines of
\* the string counted; "Unterminated string." is printed with that line
\* after what was printed before, and the error flag is set.
UnterminatedString ==
    pc = "scanned" /\ Unterminated(scanner.source) =>
        LET source == scanner.source
            alone == scannerScanTokens(
                        NewScanner(SubSeq(source, 1, Opening(source) - 1),
                                   NewErrorHandler, <<>>))
            final == 1 + Cardinality(Positions(source, "\n"))
        IN /\ scanner.tokens =
                 SubSeq(alone.tokens, 1, Len(alone.tokens) - 1)
                    \o <<Token("EndOfFile", "", NilValue, final)>>
           /\ Cardinality({i \in 1..Len(scanner.tokens) :
                              scanner.tokens[i].tokenType = "String"})
                 = (Cardinality(Positions(source, "\"")) - 1) \div 2
           /\ scanner.stdout =
                 Append(alone.stdout, StaticErrorMsg(final, "", "Unterminated string."))
           /\ scanner.errorHandler.HadError

\* A ";" and a string of a newline and a letter that the source ends in were
\* scanned: the ";" was kept and the eof token is on line 2.
UnterminatedStringWitness ==
    /\ pc = "scanned"
    /\ scanner.source = <<";", "\"", "\n", "a">>
    /\ scanner.tokens =
          <<Token("Semicolon", ";", NilValue, 1), Token("EndOfFile", "", NilValue, 2)>>
    /\ scanner.stdout = <<"[line 2] Error: Unterminated string.\n">>
    /\ scanner.errorHandler.HadError

(***************************************************************************)
(* Properties of the form of the parser's diagnostics, checked under       *)
(* SpecParse.                                                              *)
(***************************************************************************)
\* The diagnostic at a token in the form "[line L] Error at 'LEXEME': MESSAGE",
\* with "at end" for the eof token.
AtTokenMsg(token, msg) ==
    "[line " \o ToString(token.line) \o "] Error"
        \o (IF token.tokenType = "EndOfFile" THEN " at end"
            ELSE " at '" \o token.lexeme \o "'")
        \o ": " \o msg \o "\n"

\* Erroneous declarations, the place in them of the token their diagnostic
\* is reported at, and the diagnostic; the last one is reported at the eof
\* token when the source ends with it.
DiagnosticCases ==
    {[fragment |-> <<"var", ";">>, at |-> 2, msg |-> "Expect variable name.", last |-> FALSE],
     [fragment |-> <<"print", ";">>, at |-> 2, msg |-> "Expect expression.", last |-> FALSE],
     [fragment |-> <<"1", "=", "2", ";">>, at |-> 2, msg |-> "Invalid assignment target.",
      last |-> FALSE],
     [fragment |-> <<"print", "1">>, at |-> 3, msg |-> "Expect ';' after value.",
      last |-> TRUE]}

\* The latest declaration() was called on the erroneous declaration d.
DiagnosticCaseAt(d) ==
    /\ DeclaredAt(d.fragment)
    /\ d.last => before.current + Len(d.fragment) + 1 = Len(before.tokens)

\* C20: the diagnostic the parser reports at a token reads
\* "[line L] Error at 'LEXEME': MESSAGE", and "[line L] Error at end: MESSAGE"
\* when the token is the eof token.
StaticDiagnosticFormat ==
    \A d \in DiagnosticCases :
        DiagnosticCaseAt(d) =>
            /\ Len(parser.stderr) > Len(before.stderr)
            /\ parser.stderr[Len(before.stderr) + 1]
                  = AtTokenMsg(before.tokens[before.current + d.at], d.msg)

\* "var ; print 1" was parsed: the diagnostic at ";" has the bare lexeme
\* after "Error", the one at the eof token nothing.
DiagnosticsWithoutAt ==
    /\ pc = "parsed"
    /\ parser.tokens = ScanTokens(<<"var", ";", "print", "1">>)
    /\ parser.stderr = <<"[line 1] Error ;: Expect variable name.\n",
                         "[line 1] Error: Expect ';' after value.\n">>

(***************************************************************************)
(* Properties of the form of the runtime diagnostics, checked under        *)
(* SpecMain.                                                               *)
(***************************************************************************)
\* The diagnostic in the form "MESSAGE" on one line and "[line L]" on the
\* next, with or without a newline after it.
LineAfterMsg(line, msg) ==
    {msg \o "\n[line " \o ToString(line) \o "]" \o end : end \in {"", "\n"}}

\* Files that fail at run time and the message they fail with.
RuntimeDiagnosticCases ==
    {[source |-> <<"print", "b", ";">>, msg |-> UndefinedVariable(scanToken("b", 1))],
     [source |-> <<"b", "=", "1", ";">>, msg |-> UndefinedVariable(scanToken("b", 1))],
     [source |-> <<"print", "-", "\"s\"", ";">>, msg |-> "Operand must be a number."]}

\* C21: the diagnostic of a runtime error is the message on one line and
\* "[line L]" on the next, L being the line of the offending token.
RuntimeDiagnosticFormat ==
    \A d \in RuntimeDiagnosticCases :
        pc = "exited" /\ Len(osArgs) = 1 /\ file.readable /\ file.source = d.source =>
            /\ Len(stderr) = 1
            /\ stderr[1] \in LineAfterMsg(1, d.msg)

\* The file "print b;" was run: the diagnostic is one line that starts with
\* "[line 1]".
RuntimeDiagnosticOnOneLine ==
    /\ pc = "exited"
    /\ file.readable
    /\ file.source = <<"print", "b", ";">>
    /\ stderr = <<"[line 1] Undefined variable 'b'.\n">>
    /\ exitCode = 70

(***************************************************************************)
(* Properties of the native function clock, checked under SpecResolve.     *)
(***************************************************************************)
\* C22: clock has arity 0, a call of it with one argument being reported as
\* such, and the value of a call of it is a number: as the operand of a
\* numeric operator it raises no runtime error, and the result is printed.
ClockIsNumber ==
    given.family = "clock" /\ pc = "done" =>
        /\ given.c.use = "arity" =>
              execution.stderr = <<RuntimeErrorMsg(1, "Expected 0 arguments but got 1.")>>
        /\ given.c.use = "call" =>
              execution.stderr = <<>> /\ execution.stdout = <<"<native fun>\n">>
        /\ given.c.use \in NumericOperators =>
              /\ execution.stderr = <<>>
              /\ ~execution.HadRuntimeError
              /\ Len(execution.stdout) = 1

\* "print clock() - 1;" was run: the operands were reported as no numbers
\* and nothing was printed.
ClockIsNoNumber ==
    /\ pc = "done"
    /\ given.family = "clock" /\ given.c.use = "-"
    /\ execution.HadRuntimeError
    /\ execution.stdout = <<>>
    /\ execution.stderr =
          <<RuntimeErrorMsg(1, "Operands must be numbers when using the '-' operator.")>>

(***************************************************************************)
(* Static errors and execution, checked under SpecMain.                    *)
(***************************************************************************)
\* The step is a run() of the file or of a line read that ended with the
\* static error flag set.
RanWithStaticError ==
    \/ pc = "main" /\ Len(osArgs) = 1 /\ file.readable /\ errorHandler'.HadError
    \/ /\ pc = "prompt" /\ stdin # <<>>
       /\ Len(log') = Len(log) + 1
       /\ log'[Len(log')].HadError

\* What a run() that executes no statement writes to stdout: the prompt of
\* its turn and the diagnostics of its scanner.
NoPrintOutput(written) ==
    \A k \in DOMAIN written :
        written[k] \in {"> ", StaticErrorMsg(1, "", "Unexpected character.")}

\* C23: a run() in which the scanner, the parser or the resolver reported an
\* error executes no statement, in file mode and in every turn of the prompt:
\* it prints nothing, leaves the globals and the environments as they were,
\* and raises no runtime error.
NoExecutionAfterStaticError ==
    [][RanWithStaticError =>
          /\ interpreter'.globals = interpreter.globals
          /\ interpreter'.heap = interpreter.heap
          /\ Len(stdout') >= Len(stdout)
          /\ SubSeq(stdout', 1, Len(stdout)) = stdout
          /\ NoPrintOutput(SubSeq(stdout', Len(stdout) + 1, Len(stdout')))
          /\ \A k \in DOMAIN stderr' : k > Len(stderr) => stderr'[k] \notin RuntimeMessages
          /\ pc = "prompt" => ~log'[Len(log')].HadRuntimeError
          /\ pc' = "exited" => exitCode' = 65]_vars

\* A file that declares and prints a global before a return at top level
\* was run: the resolver reported the return and nothing was executed.
NoExecutionAfterStaticErrorWitness ==
    /\ pc = "exited"
    /\ file.readable
    /\ file.source = <<"var", "a", "=", "1", ";", "print", "a", ";", "return", ";">>
    /\ exitCode = 65
    /\ stdout = <<>>
    /\ stderr = <<StaticErrorMsg(1, "return", "Can't return from top level code.")>>
    /\ interpreter.globals = NewInterpreter.globals

(***************************************************************************)
(* Progress of Parse, checked under SpecParse.                             *)
(***************************************************************************)
\* C24: Parse terminates on a token list that ends with the eof token: every
\* declaration() called while the parser is not at eof leaves the cursor
\* further than it found it, so that Parse's loop has made no more turns than
\* the cursor has advanced, and the cursor never passes the index of the eof
\* token, where the loop ends.
ParseAdvances ==
    /\ parser.tokens[Len(parser.tokens)].tokenType = "EndOfFile"
    /\ parser.current + 1 <= Len(parser.tokens)
    /\ statements # <<>> => before.current < parser.current
    /\ Len(statements) <= parser.current
    /\ pc = "parsed" => parser.current + 1 = Len(parser.tokens)

\* A declaration that consumed nothing before its error was left by
\* synchronize(), which discarded its only token: Parse ended at the eof
\* token after one turn.
ParseAdvancesWitness ==
    /\ pc = "parsed"
    /\ Len(parser.tokens) = 2
    /\ parser.tokens[1].tokenType = "RightParen"
    /\ statements = <<NilNode>>
    /\ before.current = 0
    /\ parser.current = 1
    /\ parser.syncs = <<1>>

(***************************************************************************)
(* The side table over the turns of the prompt, checked under SpecMain.    *)
(***************************************************************************)
\* The globals hold the function f that FunctionLine declares, and its a.
FunctionLineRan ==
    /\ {"a", "f"} \subseteq DOMAIN interpreter.globals
    /\ interpreter.globals["a"] = NumberValue(1)
    /\ interpreter.globals["f"].kind = "function"
    /\ interpreter.globals["f"].declaration.body # <<>>

\* C25: at the prompt every expression is evaluated at the distance the
\* resolver recorded for that very expression, whatever the lines of earlier
\* turns recorded under the same id.  A line that defines the global a and
\* prints it prints 1 in every turn, and a line that prints a local 2 and
\* calls a function f of an earlier turn whose body prints the global a,
\* still 1, prints 2 and 1.
DistancesPerExpression ==
    [][pc = "prompt" /\ stdin # <<>> /\ Len(log) < MaxTurns =>
          /\ Head(stdin) = GlobalUseLine =>
                /\ stdout' = stdout \o <<"> ", "1\n">>
                /\ stderr' = stderr
                /\ pc' = "prompt"
          /\ Head(stdin) = LocalThenCallLine /\ FunctionLineRan =>
                /\ stdout' = stdout \o <<"> ", "2\n", "1\n">>
                /\ stderr' = stderr
                /\ pc' = "prompt"]_vars

\* The line with the use of a in an inner block was run, and then the line
\* that defines and prints the global a: its use of a was looked up one
\* environment out of the globals, and the process ended there, nothing
\* printed by the second line.
DistanceOfEarlierTurnApplied ==
    /\ pc = "exited"
    /\ exitCode = 2
    /\ Len(log) = 2
    /\ stdin = <<>>
    /\ stdout = <<"> ", "1\n", "> ">>
    /\ stderr = <<>>
    /\ interpreter.globals["a"] = NumberValue(1)
    /\ 2 \in DOMAIN interpreter.locals /\ interpreter.locals[2] = 1

(***************************************************************************)
(* Unwinding, checked under SpecResolve.                                   *)
(***************************************************************************)
\* What the source of the case c prints when its return ends the call of g
\* and nothing else.
UnwindPrinted(c) ==
    <<"1\n", IF c.kind = "value" THEN "7\n" ELSE "nil\n">>
        \o (IF c.calls = 2 THEN <<"3\n", "8\n">> ELSE <<>>)
        \o <<"4\n">>

\* C26: a return at any depth of blocks, loops and ifs in the body of a
\* function ends the call of that function and no other: its value, nil
\* when it has none, is the value of the call, the statements after the
\* return are not run, and the caller goes on after the call, in the
\* environment it was in.  A runtime error raised in a call, nested in a
\* call or not, is recovered from by no call: nothing is run after it, and
\* Interpret writes its diagnostic.
Unwinding ==
    given.family = "unwind" /\ pc = "done" =>
        /\ ~execution.panicking
        /\ execution.environment = GlobalEnv
        /\ given.c.kind \in {"value", "bare"} =>
              /\ execution.stdout = UnwindPrinted(given.c)
              /\ execution.stderr = <<>>
              /\ ~execution.HadRuntimeError
        /\ given.c.kind = "error" =>
              /\ execution.stdout = <<"1\n">>
              /\ execution.stderr = <<RuntimeErrorMsg(1, "Operand must be a number.")>>
              /\ execution.HadRuntimeError

\* A bare return in a loop in a block of g, called in f, was run: the call
\* of g was nil, and f and the top level went on.
UnwindingWitness ==
    /\ pc = "done"
    /\ given.family = "unwind"
    /\ given.c = [nest |-> <<"block", "while">>, kind |-> "bare", calls |-> 2]
    /\ execution.stdout = <<"1\n", "nil\n", "3\n", "8\n", "4\n">>

(***************************************************************************)
(* Instances, checked under SpecResolve.                                   *)
(***************************************************************************)
UndefinedProperty(name) == RuntimeErrorMsg(1, "Undefined property '" \o name \o "'.")

\* C27: a call of a class makes an instance whose fields are empty and those
\* of no other instance, runs the init of the class or of its superclasses
\* on it, and its value is the instance, also when init returns before its
\* end; the class takes as many arguments as that init has parameters, and
\* none without init; init called on an instance returns the instance.
ClassCalls ==
    given.family = "instance" /\ pc = "done" =>
        /\ ~execution.panicking
        /\ ~given.c.arity /\ given.c.init = "none" =>
              /\ execution.stdout = <<>>
              /\ execution.stderr = <<RuntimeErrorMsg(1, "Expected 0 arguments but got 1.")>>
        /\ ~given.c.arity /\ given.c.init # "none" =>
              /\ execution.stdout = <<>>
              /\ execution.stderr = <<RuntimeErrorMsg(1, "Expected 1 arguments but got 2.")>>
        /\ given.c.arity /\ given.c.init = "none" =>
              /\ execution.stdout = <<"A instance\n", "1\n">>
              /\ execution.stderr = <<UndefinedProperty("x")>>
        /\ given.c.arity /\ given.c.init # "none" =>
              /\ execution.stdout =
                    <<"A instance\n", "1\n", "2\n", "A instance\n", "3\n", "2\n">>
              /\ execution.stderr = <<UndefinedProperty("y")>>
              /\ execution.globals["o"].kind = "instance"
              /\ execution.globals["p"].kind = "instance"
              /\ execution.globals["o"].fields # execution.globals["p"].fields

\* Two instances of a class whose init is the one of its superclass were
\* made and init was called again on the first: the second kept its field.
ClassCallsWitness ==
    /\ pc = "done"
    /\ given.family = "instance"
    /\ given.c = [init |-> "inherited", arity |-> TRUE]
    /\ execution.stdout = <<"A instance\n", "1\n", "2\n", "A instance\n", "3\n", "2\n">>
    /\ envValues(execution, execution.globals["o"].fields)["x"] = NumberValue(3)
    /\ envValues(execution, execution.globals["p"].fields)["x"] = NumberValue(2)

(***************************************************************************)
(* Property lookup, checked under SpecResolve.                             *)
(***************************************************************************)
\* What the lookup prints.
PropertyPrinted(lookup) ==
    CASE lookup \in {"field", "own", "bound"} -> <<"5\n">>
      [] lookup = "shadowed" -> <<"7\n">>
      [] lookup = "overridden" -> <<"3\n">>
      [] lookup = "inherited" -> <<"2\n">>
      [] lookup = "grand" -> <<"1\n">>
      [] lookup = "missing" -> <<>>

\* C28: the property of an instance is its field of that name when it has
\* one, also when a method has that name; else the method of that name of
\* its class or, when that has none, of the nearest superclass that has one,
\* bound to the instance; without either the lookup is the runtime error
\* "Undefined property".
PropertyLookup ==
    given.family = "property" /\ pc = "done" =>
        /\ ~execution.panicking
        /\ execution.stdout = PropertyPrinted(given.c.lookup)
        /\ execution.stderr =
              IF given.c.lookup = "missing" THEN <<UndefinedProperty("z")>> ELSE <<>>
        /\ execution.HadRuntimeError <=> given.c.lookup = "missing"

\* A field was set under the name of a method and read: the field was found.
PropertyLookupWitness ==
    /\ pc = "done"
    /\ given.family = "property"
    /\ given.c.lookup = "shadowed"
    /\ "n" \in DOMAIN envValues(execution, execution.globals["o"].fields)
    /\ findMethod(execution.globals["o"].class, "n").kind = "function"
    /\ execution.stdout = <<"7\n">>

(***************************************************************************)
(* The distance of super at run time, checked under SpecResolve.           *)
(***************************************************************************)
\* The environment super.m was evaluated in, once the run is over: the last
\* two environments made are the one bind made for m and the one of its
\* call, and the one before them is the innermost of the nesting.
SuperEvaluatedIn == Len(execution.heap) - 2

\* C29: for super.m in a method of a class with a superclass, nested in
\* blocks and functions or not, the distance d recorded for super is such
\* that, where the expression is evaluated, the environment d links out
\* holds super, the superclass, and the one d - 1 links out holds this, the
\* instance the method was called on: the method of the superclass runs on
\* that instance.
SuperDistance ==
    given.family = "superthis" /\ pc = "done" =>
        /\ ~execution.panicking
        /\ \A n \in SuperExprs :
              /\ n.id \in DOMAIN execution.locals
              /\ LET d == execution.locals[n.id]
                     superEnv == ancestor(execution, SuperEvaluatedIn, d)
                     thisEnv == ancestor(execution, SuperEvaluatedIn, d - 1)
                 IN /\ d = 2 + Len(given.c.nest)
                    /\ "super" \in DOMAIN envValues(execution, superEnv)
                    /\ envValues(execution, superEnv)["super"] = execution.globals["B"]
                    /\ "this" \in DOMAIN envValues(execution, thisEnv)
                    /\ envValues(execution, thisEnv)["this"] = execution.globals["o"]
                    /\ envEnclosing(execution, thisEnv) = superEnv
        /\ execution.stdout = <<"5\n">>
        /\ execution.stderr = <<>>

\* super.m() was evaluated in a function in a block of the method: the
\* distance of super was 4, and m read the field of the instance.
SuperDistanceWitness ==
    /\ pc = "done"
    /\ given.family = "superthis"
    /\ given.c.nest = <<"block", "fun">>
    /\ \E n \in SuperExprs : n.id \in DOMAIN execution.locals /\ execution.locals[n.id] = 4
    /\ execution.stdout = <<"5\n">>

(***************************************************************************)
(* The state of the resolver around a statement, checked under             *)
(* SpecResolve.                                                            *)
(***************************************************************************)
\* The states a statement nested in blocks, functions and classes is
\* resolved from: up to MaxContext scopes, empty or with a declared in them,
\* and any function kind and class kind.
MaxContext == 2

ResolverContexts ==
    [scopes : UNION {[1..n -> {EmptyMap, Put(EmptyMap, "a", TRUE)}] : n \in 0..MaxContext},
     currentFunctionType : {"ftNone", "ftFunction", "ftInitializer", "ftMethod"},
     currentClassType : {"ctNone", "ctClass", "ctSubClass"}]

InContext(r, ctx) ==
    [r EXCEPT !.scopes = ctx.scopes,
              !.currentFunctionType = ctx.currentFunctionType,
              !.currentClassType = ctx.currentClassType]

\* The scope stack is as deep and the two kinds are the same in a as in r.
SameContext(r, a) ==
    /\ Len(a.scopes) = Len(r.scopes)
    /\ a.currentFunctionType = r.currentFunctionType
    /\ a.currentClassType = r.currentClassType

\* C30: the state of the resolver is balanced.  Resolving a statement, with
\* or without reported errors, from any depth of scopes and any function
\* and class kind, leaves the scope stack as deep as it was and the two
\* kinds as they were; between the statements of a program and after
\* ResolveStatements the scope stack is empty and both kinds are none.
ResolverBalanced ==
    /\ pc \in {"resolve", "interpret", "done"} =>
          /\ resolver.scopes = <<>>
          /\ resolver.currentFunctionType = "ftNone"
          /\ resolver.currentClassType = "ctNone"
    /\ pc = "resolve" /\ todo # <<>> =>
          \A ctx \in ResolverContexts :
              SameContext(InContext(resolver, ctx),
                          resolveStatement(InContext(resolver, ctx), Head(todo)))

\* A class with methods, a class nested in one of them and the errors
\* reported in them was resolved: the scope stack is empty and the kinds are
\* none.
ResolverBalancedWitness ==
    /\ pc = "done"
    /\ given = [family |-> "balance", c |-> [k |-> 2]]
    /\ resolver.HadError
    /\ Len(resolver.stderr) >= 3
    /\ resolver.scopes = <<>>
    /\ resolver.currentFunctionType = "ftNone"
    /\ resolver.currentClassType = "ctNone"

====
